---- MODULE Spec2Model ----
(***************************************************************************)
(* Human-in-the-loop approval gate, risk classifier and monitoring         *)
(* recorder of the deep agent supervisor (src/deep_agent_supervisor.py)    *)
(* with the HTTP entry points that drive them (src/main_deep_agent.py).    *)
(*                                                                         *)
(* Texts are sequences of one-character strings, so that lower(), upper()  *)
(* and Python's substring test `a in b` are computed as the code computes  *)
(* them.                                                                   *)
(***************************************************************************)
EXTENDS Integers, Sequences, FiniteSets, TLC

\* ------------------------------------------------------------------ bounds
\* largest value of the millisecond clock int(time.time() * 1000)
MaxClock == 1
\* largest number of query_database calls in a behaviour
MaxCalls == 2
\* largest number of direct _analyze_sql_risk calls in a behaviour
MaxAnalyses == 2
\* invocations of the supervisor chain in one behaviour
MaxRuns == 2
\* chat requests on one thread
MaxTurns == 2

\* ------------------------------------------------------------------- texts
LowerChars ==
    <<"a", "b", "c", "d", "e", "f", "g", "h", "i", "j", "k", "l", "m", "n", "o", "p",
      "q", "r", "s", "t", "u", "v", "w", "x", "y", "z">>
UpperChars ==
    <<"A", "B", "C", "D", "E", "F", "G", "H", "I", "J", "K", "L", "M", "N", "O", "P",
      "Q", "R", "S", "T", "U", "V", "W", "X", "Y", "Z">>
Range(s) == {s[i] : i \in DOMAIN s}
UpperMap == [c \in Range(LowerChars) |-> UpperChars[CHOOSE i \in 1..26 : LowerChars[i] = c]]
LowerMap == [c \in Range(UpperChars) |-> LowerChars[CHOOSE i \in 1..26 : UpperChars[i] = c]]
\* str.upper() and str.lower() on ASCII text
upper(s) == [i \in DOMAIN s |-> IF s[i] \in DOMAIN UpperMap THEN UpperMap[s[i]] ELSE s[i]]
lower(s) == [i \in DOMAIN s |-> IF s[i] \in DOMAIN LowerMap THEN LowerMap[s[i]] ELSE s[i]]
\* Python's `needle in hay` on strings: needle occurs as a contiguous substring
Contains(needle, hay) ==
    \E i \in 0..(Len(hay) - Len(needle)) :
        \A j \in 1..Len(needle) : hay[i + j] = needle[j]

\* natural-language queries given to query_database
NL_FAILED_ORDERS ==
    <<"s", "h", "o", "w", " ", "a", "l", "l", " ", "f", "a", "i", "l", "e", "d", " ",
      "o", "r", "d", "e", "r", "s">>
NL_REVENUE ==
    <<"W", "h", "a", "t", "'", "s", " ", "t", "h", "e", " ", "t", "o", "t", "a", "l",
      " ", "r", "e", "v", "e", "n", "u", "e", " ", "b", "y", " ", "p", "a", "y", "m",
      "e", "n", "t", " ", "m", "e", "t", "h", "o", "d", "?">>
NL_DELETE_ORDER ==
    <<"d", "e", "l", "e", "t", "e", " ", "o", "r", "d", "e", "r", " ", "O", "R", "D",
      "-", "1">>
NL_LIST_USERS ==
    <<"l", "i", "s", "t", " ", "u", "s", "e", "r", "s">>
NL_UPDATED_ORDERS ==
    <<"r", "e", "c", "e", "n", "t", "l", "y", " ", "u", "p", "d", "a", "t", "e", "d",
      " ", "o", "r", "d", "e", "r", "s">>
NL_ORDERS_FROM ==
    <<"o", "r", "d", "e", "r", "s", " ", "f", "r", "o", "m", " ", "l", "a", "s", "t",
      " ", "w", "e", "e", "k">>
NL_TOP_CUSTOMERS ==
    <<"t", "o", "p", " ", "c", "u", "s", "t", "o", "m", "e", "r", "s">>
\* the queries the tool is called with: a low-risk and a high-risk one
NLQueries == {NL_FAILED_ORDERS, NL_DELETE_ORDER}

\* the statements and keywords of _generate_sql_from_nl and _analyze_sql_risk
\* src/deep_agent_supervisor.py:534-545
SQL_FAILED_ORDERS ==
    <<"S", "E", "L", "E", "C", "T", " ", "\n", " ", " ", " ", " ", "o", ".", "o", "r",
      "d", "e", "r", "_", "i", "d", ",", "\n", " ", " ", " ", " ", "o", ".", "s", "t",
      "a", "t", "u", "s", ",", "\n", " ", " ", " ", " ", "o", ".", "o", "r", "d", "e",
      "r", "_", "d", "a", "t", "e", ",", "\n", " ", " ", " ", " ", "o", ".", "a", "m",
      "o", "u", "n", "t", ",", "\n", " ", " ", " ", " ", "o", ".", "p", "a", "y", "m",
      "e", "n", "t", "_", "m", "e", "t", "h", "o", "d", ",", "\n", " ", " ", " ", " ",
      "o", ".", "e", "r", "r", "o", "r", "_", "m", "e", "s", "s", "a", "g", "e", "\n",
      "F", "R", "O", "M", " ", "o", "r", "d", "e", "r", "s", " ", "o", "\n", "W", "H",
      "E", "R", "E", " ", "o", ".", "s", "t", "a", "t", "u", "s", " ", "=", " ", "'",
      "f", "a", "i", "l", "e", "d", "'", "\n", " ", " ", " ", " ", "A", "N", "D", " ",
      "o", ".", "o", "r", "d", "e", "r", "_", "d", "a", "t", "e", " ", ">", "=", " ",
      "D", "A", "T", "E", "_", "S", "U", "B", "(", "C", "U", "R", "D", "A", "T", "E",
      "(", ")", ",", " ", "I", "N", "T", "E", "R", "V", "A", "L", " ", "1", " ", "D",
      "A", "Y", ")", "\n", "O", "R", "D", "E", "R", " ", "B", "Y", " ", "o", ".", "o",
      "r", "d", "e", "r", "_", "d", "a", "t", "e", " ", "D", "E", "S", "C", "\n", "L",
      "I", "M", "I", "T", " ", "1", "0", "0", ";">>
\* src/deep_agent_supervisor.py:548-555
SQL_REVENUE ==
    <<"S", "E", "L", "E", "C", "T", " ", "\n", " ", " ", " ", " ", "p", "a", "y", "m",
      "e", "n", "t", "_", "m", "e", "t", "h", "o", "d", ",", "\n", " ", " ", " ", " ",
      "C", "O", "U", "N", "T", "(", "*", ")", " ", "a", "s", " ", "t", "r", "a", "n",
      "s", "a", "c", "t", "i", "o", "n", "_", "c", "o", "u", "n", "t", ",", "\n", " ",
      " ", " ", " ", "S", "U", "M", "(", "a", "m", "o", "u", "n", "t", ")", " ", "a",
      "s", " ", "t", "o", "t", "a", "l", "_", "r", "e", "v", "e", "n", "u", "e", "\n",
      "F", "R", "O", "M", " ", "o", "r", "d", "e", "r", "s", "\n", "W", "H", "E", "R",
      "E", " ", "s", "t", "a", "t", "u", "s", " ", "=", " ", "'", "c", "o", "m", "p",
      "l", "e", "t", "e", "d", "'", "\n", "G", "R", "O", "U", "P", " ", "B", "Y", " ",
      "p", "a", "y", "m", "e", "n", "t", "_", "m", "e", "t", "h", "o", "d", "\n", "O",
      "R", "D", "E", "R", " ", "B", "Y", " ", "t", "o", "t", "a", "l", "_", "r", "e",
      "v", "e", "n", "u", "e", " ", "D", "E", "S", "C", ";">>
\* src/deep_agent_supervisor.py:558-566
SQL_ALL_ORDERS ==
    <<"S", "E", "L", "E", "C", "T", " ", "\n", " ", " ", " ", " ", "o", "r", "d", "e",
      "r", "_", "i", "d", ",", "\n", " ", " ", " ", " ", "s", "t", "a", "t", "u", "s",
      ",", "\n", " ", " ", " ", " ", "o", "r", "d", "e", "r", "_", "d", "a", "t", "e",
      ",", "\n", " ", " ", " ", " ", "a", "m", "o", "u", "n", "t", ",", "\n", " ", " ",
      " ", " ", "c", "u", "s", "t", "o", "m", "e", "r", "_", "i", "d", "\n", "F", "R",
      "O", "M", " ", "o", "r", "d", "e", "r", "s", "\n", "W", "H", "E", "R", "E", " ",
      "o", "r", "d", "e", "r", "_", "d", "a", "t", "e", " ", ">", "=", " ", "D", "A",
      "T", "E", "_", "S", "U", "B", "(", "C", "U", "R", "D", "A", "T", "E", "(", ")",
      ",", " ", "I", "N", "T", "E", "R", "V", "A", "L", " ", "7", " ", "D", "A", "Y",
      ")", "\n", "L", "I", "M", "I", "T", " ", "1", "0", "0", "0", ";">>
\* src/deep_agent_supervisor.py:570-572, the text before {natural_language_query}
SQL_GENERIC_PREFIX ==
    <<"S", "E", "L", "E", "C", "T", " ", "*", " ", "F", "R", "O", "M", " ", "o", "r",
      "d", "e", "r", "s", " ", "\n", "W", "H", "E", "R", "E", " ", "o", "r", "d", "e",
      "r", "_", "d", "a", "t", "e", " ", ">", "=", " ", "D", "A", "T", "E", "_", "S",
      "U", "B", "(", "C", "U", "R", "D", "A", "T", "E", "(", ")", ",", " ", "I", "N",
      "T", "E", "R", "V", "A", "L", " ", "1", " ", "D", "A", "Y", ")", "\n", "L", "I",
      "M", "I", "T", " ", "1", "0", "0", ";", " ", " ", "-", "-", " ", "G", "e", "n",
      "e", "r", "i", "c", " ", "q", "u", "e", "r", "y", " ", "f", "o", "r", ":", " ">>
KW_FAILED_ORDERS ==
    <<"f", "a", "i", "l", "e", "d", " ", "o", "r", "d", "e", "r", "s">>
KW_REVENUE ==
    <<"r", "e", "v", "e", "n", "u", "e">>
KW_PAYMENT_METHOD ==
    <<"p", "a", "y", "m", "e", "n", "t", " ", "m", "e", "t", "h", "o", "d">>
KW_ALL_ORDERS ==
    <<"a", "l", "l", " ", "o", "r", "d", "e", "r", "s">>
KW_ORDERS_FROM ==
    <<"o", "r", "d", "e", "r", "s", " ", "f", "r", "o", "m">>
KW_SELECT ==
    <<"S", "E", "L", "E", "C", "T">>
KW_LIMIT ==
    <<"L", "I", "M", "I", "T">>
OP_UPDATE ==
    <<"U", "P", "D", "A", "T", "E">>
OP_DELETE ==
    <<"D", "E", "L", "E", "T", "E">>
OP_INSERT ==
    <<"I", "N", "S", "E", "R", "T">>
OP_DROP ==
    <<"D", "R", "O", "P">>
OP_ALTER ==
    <<"A", "L", "T", "E", "R">>
OP_TRUNCATE ==
    <<"T", "R", "U", "N", "C", "A", "T", "E">>
OP_CREATE ==
    <<"C", "R", "E", "A", "T", "E">>
write_operations == <<OP_UPDATE, OP_DELETE, OP_INSERT, OP_DROP, OP_ALTER, OP_TRUNCATE, OP_CREATE>>
TABLE_users ==
    <<"u", "s", "e", "r", "s">>
TABLE_payments ==
    <<"p", "a", "y", "m", "e", "n", "t", "s">>
TABLE_credentials ==
    <<"c", "r", "e", "d", "e", "n", "t", "i", "a", "l", "s">>
TABLE_api_keys ==
    <<"a", "p", "i", "_", "k", "e", "y", "s">>
sensitive_tables == <<TABLE_users, TABLE_payments, TABLE_credentials, TABLE_api_keys>>
REASON_WRITE ==
    <<"Q", "u", "e", "r", "y", " ", "c", "o", "n", "t", "a", "i", "n", "s", " ", "w",
      "r", "i", "t", "e", " ", "o", "p", "e", "r", "a", "t", "i", "o", "n", ":", " ">>
REASON_SENSITIVE ==
    <<"Q", "u", "e", "r", "y", " ", "a", "c", "c", "e", "s", "s", "e", "s", " ", "s",
      "e", "n", "s", "i", "t", "i", "v", "e", " ", "t", "a", "b", "l", "e", ":", " ">>
REASON_NO_LIMIT ==
    <<"Q", "u", "e", "r", "y", " ", "h", "a", "s", " ", "n", "o", " ", "L", "I", "M",
      "I", "T", " ", "c", "l", "a", "u", "s", "e", " ", "-", " ", "m", "a", "y", " ",
      "r", "e", "t", "u", "r", "n", " ", "l", "a", "r", "g", "e", " ", "d", "a", "t",
      "a", "s", "e", "t">>
REASON_SAFE ==
    <<"S", "a", "f", "e", " ", "S", "E", "L", "E", "C", "T", " ", "q", "u", "e", "r",
      "y", " ", "w", "i", "t", "h", " ", "L", "I", "M", "I", "T", " ", "c", "l", "a",
      "u", "s", "e">>
ID_PREFIX ==
    <<"s", "q", "l", "_">>

\* query_id = f"sql_{int(time.time() * 1000)}": the prefix and the millisecond
make_query_id(ms) == <<ID_PREFIX, ms>>
\* the identifiers a caller may name: one per clock value, issued or not
QueryIds == {make_query_id(ms) : ms \in 0..MaxClock}
NoId == <<>>
NoText == <<>>

\* ----------------------------------------------------------------- state
VARIABLES
    now,                                    \* int(time.time() * 1000)
    enabled,                                \* hitl_config.enabled
    require_approval_for_sensitive_tables,  \* hitl_config.require_approval_for_sensitive_tables
    auto_approve_safe_queries,              \* hitl_config.auto_approve_safe_queries
    pending_approvals,                      \* hitl_config.pending_approvals, in insertion order
    agent_executions,                       \* monitoring.agent_executions
    tool_calls,                             \* monitoring.tool_calls
    errors,                                 \* monitoring.errors
    start_time,                             \* monitoring.start_time
    executed,                               \* the calls of _execute_database_query, in order
    proposed,                               \* the query_id of each SQLApprovalRequest created, in order
    resolutions,                            \* the approve/reject calls that succeeded, in order
    ret,                                    \* what the last sequential call returned
    pc, arg, held, tret,                    \* threads inside approve_sql_query / reject_sql_query
    payload,                                \* the statement given to _analyze_sql_risk directly
    analyses,                               \* what each direct _analyze_sql_risk call returned
    approval,                               \* the last direct _requires_human_approval call
    messages,                               \* agent_executor: lc_messages, then the returned "messages"
    response,                               \* agent_executor: the first reply of the LLM
    tool_calls_left,                        \* agent_executor: response.tool_calls not yet iterated
    tool_messages,                          \* agent_executor: tool_messages
    chain_pc,                               \* where the supervisor chain is
    llm_invocations,                        \* LLM invocations of the current chain run
    final_response,                         \* postprocess: final_response of the last run
    runs,                                   \* chain runs started
    graph_messages,                         \* AgentState["messages"] of the thread
    next,                                   \* AgentState["next"]
    node,                                   \* the graph node that runs next
    events_count,                           \* chat: events_count
    final_state,                            \* chat: final_state["messages"]
    cut,                                    \* chat: the loop was left by the max_events break
    response_content,                       \* chat: response_content of the last request
    handler_invocations,                    \* team nodes run since the request
    supervisor_decisions,                   \* supervisor_node calls since the request
    graph_llm_invocations,                  \* llm.invoke calls of supervisor_node since the request
    first_decisions,                        \* (user message, next) of each decision taken by the routing rules
    turns,                                  \* chat requests on the thread
    agent_path,                             \* chat of main.py: agent_path
    handlers_run,                           \* the team nodes run since the request, in order
    raised,                                 \* the exception that left supervisor.invoke in the last run
    last_summary,                           \* the last get_summary() result since the recorder was used
    run_pc, run_idx,                        \* concurrent runs: where each is, and the idx it holds
    active_threads,                         \* main_deep_agent.py: active_threads
    request,                                \* the /chat request that is being served
    http,                                   \* what the last request of main_deep_agent.py returned
    routed,                                 \* the decisions of supervisor_node called directly
    db,                                     \* db_team.py: the database behind _db_conn
    db_log                                  \* the calls of execute_sql_query, in order

hitl_vars == <<enabled, require_approval_for_sensitive_tables, auto_approve_safe_queries>>
monitoring_vars == <<agent_executions, tool_calls, errors, start_time>>
thread_vars == <<pc, arg, held, tret>>
direct_vars == <<payload, analyses, approval>>
chain_vars == <<messages, response, tool_calls_left, tool_messages, chain_pc, llm_invocations,
                final_response, runs>>
exec_vars == <<raised, last_summary>>
runs_vars == <<run_pc, run_idx>>
deep_chat_vars == <<active_threads, request, http>>
db_vars == <<db, db_log>>
api_vars == <<deep_chat_vars, routed, db_vars>>
graph_vars == <<graph_messages, next, node, events_count, final_state, cut, response_content,
                handler_invocations, supervisor_decisions, graph_llm_invocations,
                first_decisions, turns, agent_path, handlers_run>>
vars == <<now, enabled, require_approval_for_sensitive_tables, auto_approve_safe_queries,
          pending_approvals, agent_executions, tool_calls, errors, start_time,
          executed, proposed, resolutions, ret, pc, arg, held, tret,
          payload, analyses, approval,
          messages, response, tool_calls_left, tool_messages, chain_pc, llm_invocations,
          final_response, runs,
          graph_messages, next, node, events_count, final_state, cut, response_content,
          handler_invocations, supervisor_decisions, graph_llm_invocations,
          first_decisions, turns, agent_path, handlers_run, raised, last_summary, run_pc, run_idx,
          active_threads, request, http, routed, db, db_log>>

Threads == {1, 2}

\* -------------------------------------------------------- pure functions
\* _generate_sql_from_nl: keyword branches on the lower-cased query; the
\* generic branch embeds the query text in a trailing SQL comment
generate_sql_from_nl(natural_language_query) ==
    LET query_lower == lower(natural_language_query)
    IN  IF Contains(KW_FAILED_ORDERS, query_lower) THEN SQL_FAILED_ORDERS
        ELSE IF Contains(KW_REVENUE, query_lower) /\ Contains(KW_PAYMENT_METHOD, query_lower)
             THEN SQL_REVENUE
        ELSE IF Contains(KW_ALL_ORDERS, query_lower) \/ Contains(KW_ORDERS_FROM, query_lower)
             THEN SQL_ALL_ORDERS
        ELSE SQL_GENERIC_PREFIX \o natural_language_query

MinOf(S) == CHOOSE x \in S : \A y \in S : x <= y

\* variant: the classifier skips its checks while HITL is switched off
analyze_sql_risk_reads_enabled(sql) ==
    LET sql_upper == upper(sql)
        ops == {i \in DOMAIN write_operations : Contains(write_operations[i], sql_upper)}
    IN  IF enabled /\ ops # {}
        THEN <<"high", REASON_WRITE \o write_operations[MinOf(ops)]>>
        ELSE <<"low", REASON_SAFE>>

\* _analyze_sql_risk: substring tests on the upper-cased statement, in order
analyze_sql_risk(sql) ==
    LET sql_upper == upper(sql)
        ops == {i \in DOMAIN write_operations : Contains(write_operations[i], sql_upper)}
        tables == {i \in DOMAIN sensitive_tables :
                      Contains(upper(sensitive_tables[i]), sql_upper)}
    IN  IF ops # {}
        THEN <<"high", REASON_WRITE \o write_operations[MinOf(ops)]>>
        ELSE IF tables # {}
        THEN <<"medium", REASON_SENSITIVE \o sensitive_tables[MinOf(tables)]>>
        ELSE IF Contains(KW_SELECT, sql_upper) /\ ~Contains(KW_LIMIT, sql_upper)
        THEN <<"medium", REASON_NO_LIMIT>>
        ELSE <<"low", REASON_SAFE>>

\* statements given to _analyze_sql_risk directly
SQL_DELETE_STATEMENT ==
    <<"D", "E", "L", "E", "T", "E", " ", "F", "R", "O", "M", " ", "o", "r", "d", "e",
      "r", "s", " ", "W", "H", "E", "R", "E", " ", "o", "r", "d", "e", "r", "_", "i",
      "d", " ", "=", " ", "'", "O", "R", "D", "-", "1", "'">>
SQL_SELECT_CREATED_AT ==
    <<"S", "E", "L", "E", "C", "T", " ", "c", "r", "e", "a", "t", "e", "d", "_", "a",
      "t", " ", "F", "R", "O", "M", " ", "o", "r", "d", "e", "r", "s", " ", "L", "I",
      "M", "I", "T", " ", "1", "0">>
SQL_SELECT_USERS ==
    <<"S", "E", "L", "E", "C", "T", " ", "*", " ", "F", "R", "O", "M", " ", "u", "s",
      "e", "r", "s", " ", "L", "I", "M", "I", "T", " ", "5">>
SQL_SELECT_UNBOUNDED ==
    <<"S", "E", "L", "E", "C", "T", " ", "*", " ", "F", "R", "O", "M", " ", "o", "r",
      "d", "e", "r", "s">>
AllNLQueries ==
    {NL_FAILED_ORDERS, NL_REVENUE, NL_DELETE_ORDER, NL_LIST_USERS,
     NL_UPDATED_ORDERS, NL_ORDERS_FROM, NL_TOP_CUSTOMERS}
\* the payloads of the classifier: every generated statement and the direct ones
Payloads ==
    {generate_sql_from_nl(q) : q \in AllNLQueries}
        \cup {SQL_DELETE_STATEMENT, SQL_SELECT_CREATED_AT, SQL_SELECT_USERS,
              SQL_SELECT_UNBOUNDED}
RiskLevels == {"low", "medium", "high"}

\* The two functions tabulated over the model's inputs, so that an action looks a
\* value up instead of scanning the text again in every state.
GeneratedSql == [q \in AllNLQueries |-> generate_sql_from_nl(q)]
SqlRisk == [sql \in Payloads |-> analyze_sql_risk(sql)]

\* variant: the auto-approve flag is tested without the risk level
requires_human_approval_any_level(sql, risk_level) ==
    IF ~enabled THEN FALSE
    ELSE IF auto_approve_safe_queries THEN FALSE
    ELSE TRUE

\* variant: low-risk statements are never auto-approved
requires_human_approval_no_auto(sql, risk_level) ==
    IF ~enabled THEN FALSE ELSE TRUE

\* _requires_human_approval: reads the three policy flags of hitl_config
requires_human_approval(sql, risk_level) ==
    IF ~enabled THEN FALSE
    ELSE IF risk_level = "high" THEN TRUE
    ELSE IF risk_level = "medium" /\ require_approval_for_sensitive_tables THEN TRUE
    ELSE IF risk_level = "low" /\ auto_approve_safe_queries THEN FALSE
    ELSE TRUE

\* ------------------------------------------- dict of pending approvals
\* a Python dict keyed by query_id, kept as the sequence of its values in
\* insertion order (assigning to a present key keeps the key's position)
InDict(d, k) == \E i \in DOMAIN d : d[i].query_id = k
DictGet(d, k) == d[CHOOSE i \in DOMAIN d : d[i].query_id = k]
\* variant: a new key is put in front
DictSet_in_front(d, k, v) ==
    IF InDict(d, k)
    THEN [i \in DOMAIN d |-> IF d[i].query_id = k THEN v ELSE d[i]]
    ELSE <<v>> \o d
DictSet(d, k, v) ==
    IF InDict(d, k)
    THEN [i \in DOMAIN d |-> IF d[i].query_id = k THEN v ELSE d[i]]
    ELSE Append(d, v)
DictDel(d, k) == SelectSeq(d, LAMBDA r : r.query_id # k)

\* ------------------------------------------------- MonitoringMiddleware
\* track_tool_call appends a started record; its index is the new length
track_tool_call(calls, tool_name, args) ==
    Append(calls, [tool |-> tool_name, args |-> args, start_time |-> now,
                   status |-> "started"])
\* track_tool_complete(idx, result): fills end_time, duration, status and the
\* length of str(result) when idx is in range; the result itself is not kept
\* (idx is 1-based here, 0-based in the code)
track_tool_complete(calls, idx, result_length) ==
    IF idx <= Len(calls)
    THEN [calls EXCEPT ![idx] = [tool |-> @.tool, args |-> @.args,
                                 start_time |-> @.start_time, end_time |-> now,
                                 duration |-> now - @.start_time,
                                 status |-> "completed",
                                 result_length |-> result_length]]
    ELSE calls
\* len("PENDING_APPROVAL")
PENDING_APPROVAL_LENGTH == 16
\* len(_execute_database_query(query, sql, None)): the fixed text of the template
\* and the two texts it embeds
RESULT_TEMPLATE_LENGTH == 1137
ResultLength(query, sql) == RESULT_TEMPLATE_LENGTH + Len(query) + Len(sql)

\* _execute_database_query is a simulation that only formats text; the call
\* itself is what is recorded
\* (by: the caller; req: the SQLApprovalRequest object the statement was held in, 0 if none)
execute_database_query(log, by, query, sql, risk_level, req) ==
    Append(log, [by |-> by, query |-> query, sql |-> sql, risk_level |-> risk_level,
                 req |-> req])

NumCalls == Len(proposed) + Cardinality({i \in DOMAIN executed : executed[i].by = "query_database"})

\* a call's return value: the call, the identifier in the text, the text's headline
Ret(op, query_id, outcome) == [op |-> op, query_id |-> query_id, outcome |-> outcome]

\* a thread's local approval_request before it has read one
NoRequest ==
    [query_id |-> NoId, natural_language_query |-> NoText, generated_sql |-> NoText,
     risk_level |-> "none", reason |-> NoText, timestamp |-> 0, req |-> 0]

\* Optional[bool] parameters: <<>> is None, <<b>> is the value b
OptionalBool == {<<>>, <<TRUE>>, <<FALSE>>}

\* the headline of each return text
APPROVAL_REQUIRED == "HUMAN APPROVAL REQUIRED"
AUTO_APPROVED == "QUERY AUTO-APPROVED"
CONFIG_UPDATED == "HITL configuration updated"
NOT_FOUND == "not found in pending approvals"
APPROVED == "QUERY APPROVED AND EXECUTED"
REJECTED == "QUERY REJECTED"

\* no direct _requires_human_approval call yet
NoApproval ==
    [risk_level |-> "none", enabled |-> TRUE, require_approval_for_sensitive_tables |-> TRUE,
     auto_approve_safe_queries |-> TRUE, required |-> FALSE]

\* ------------------------------------------------------------------ Init
\* no chain run yet
NoMessage == [type |-> "none", content |-> "", tool_calls |-> <<>>]
InitChain ==
    /\ messages = <<>>
    /\ response = NoMessage
    /\ tool_calls_left = <<>>
    /\ tool_messages = <<>>
    /\ chain_pc = "idle"
    /\ llm_invocations = 0
    /\ final_response = "none"
    /\ runs = 0
\* no chat request on the thread yet
InitGraph ==
    /\ graph_messages = <<>>
    /\ next = "none"
    /\ node = "idle"
    /\ events_count = 0
    /\ final_state = <<>>
    /\ cut = FALSE
    /\ response_content = "none"
    /\ handler_invocations = 0
    /\ supervisor_decisions = 0
    /\ graph_llm_invocations = 0
    /\ first_decisions = {}
    /\ turns = 0
    /\ agent_path = <<>>
    /\ handlers_run = <<>>

\* no exception and no summary yet
NoSummary == [total_agents_called |-> -1]
InitExecutor ==
    /\ raised = "none"
    /\ last_summary = NoSummary
\* no concurrent run in flight
InitRuns ==
    /\ run_pc = [t \in Threads |-> "idle"]
    /\ run_idx = [t \in Threads |-> 0]

\* no request served yet; the database holds the sample data
NoRequestServed == [endpoint |-> "none", thread_id |-> "none", message |-> <<>>]
NoHttp == [status |-> 0]
SampleData == [tables |-> {"orders", "order_items", "inventory", "system_logs"},
               orders |-> {"GOOD001", "BAD001", "GOOD002", "PEND001", "GOOD003"},
               product_name |-> "Premium Widget A"]
InitApi ==
    /\ active_threads = <<>>
    /\ request = NoRequestServed
    /\ http = NoHttp
    /\ routed = <<>>
    /\ db = SampleData
    /\ db_log = <<>>

Init ==
    /\ now = 0
    /\ enabled = TRUE
    /\ require_approval_for_sensitive_tables = TRUE
    /\ auto_approve_safe_queries = TRUE
    /\ pending_approvals = <<>>
    /\ agent_executions = <<>>
    /\ tool_calls = <<>>
    /\ errors = <<>>
    /\ start_time = 0
    /\ executed = <<>>
    /\ proposed = <<>>
    /\ resolutions = <<>>
    /\ ret = Ret("none", NoId, "none")
    /\ pc = [t \in Threads |-> "idle"]
    /\ arg = [t \in Threads |-> NoId]
    /\ held = [t \in Threads |-> NoRequest]
    /\ tret = [t \in Threads |-> "none"]
    /\ payload = NoText
    /\ analyses = <<>>
    /\ approval = NoApproval
    /\ InitChain
    /\ InitGraph
    /\ InitExecutor
    /\ InitRuns
    /\ InitApi

\* --------------------------------------------------------------- actions
\* the system clock moves on between two statements
Tick ==
    /\ now < MaxClock
    /\ now' = now + 1
    /\ UNCHANGED <<hitl_vars, pending_approvals, monitoring_vars, executed, proposed,
                   resolutions, ret, thread_vars, direct_vars>>

\* the query_database tool
query_database(natural_language_query) ==
    /\ NumCalls < MaxCalls
    /\ LET idx == Len(tool_calls) + 1
           started == track_tool_call(tool_calls, "query_database",
                                      [query |-> natural_language_query,
                                       table_hint |-> "None"])
           generated_sql == GeneratedSql[natural_language_query]
           risk == SqlRisk[generated_sql]
           risk_level == risk[1]
           risk_reason == risk[2]
       IN  IF requires_human_approval(generated_sql, risk_level)
           THEN LET query_id == make_query_id(now)
                    req == Len(proposed) + 1
                    approval_request ==
                        [query_id |-> query_id,
                         natural_language_query |-> natural_language_query,
                         generated_sql |-> generated_sql,
                         risk_level |-> risk_level,
                         reason |-> risk_reason,
                         timestamp |-> now,
                         req |-> req]
                IN  /\ pending_approvals' = DictSet(pending_approvals, query_id, approval_request)
                    /\ proposed' = Append(proposed, query_id)
                    /\ tool_calls' = track_tool_complete(started, idx, PENDING_APPROVAL_LENGTH)
                    /\ ret' = Ret("query_database", query_id, APPROVAL_REQUIRED)
                    /\ UNCHANGED executed
           ELSE /\ executed' = execute_database_query(executed, "query_database",
                                    natural_language_query, generated_sql, risk_level, 0)
                /\ tool_calls' = track_tool_complete(started, idx,
                                    ResultLength(natural_language_query, generated_sql))
                /\ ret' = Ret("query_database", NoId, AUTO_APPROVED)
                /\ UNCHANGED <<pending_approvals, proposed>>
    /\ UNCHANGED <<now, hitl_vars, agent_executions, errors, start_time, resolutions,
                   thread_vars, direct_vars>>

\* variant: the approved request is not removed from the pending approvals
approve_sql_query_no_del(query_id) ==
    /\ IF ~InDict(pending_approvals, query_id)
       THEN /\ ret' = Ret("approve_sql_query", query_id, NOT_FOUND)
            /\ UNCHANGED <<executed, resolutions>>
       ELSE LET approval_request == DictGet(pending_approvals, query_id)
            IN  /\ executed' = execute_database_query(executed, "approve_sql_query",
                                   approval_request.natural_language_query,
                                   approval_request.generated_sql,
                                   approval_request.risk_level, approval_request.req)
                /\ resolutions' = Append(resolutions,
                                     [req |-> approval_request.req, by |-> "approve"])
                /\ ret' = Ret("approve_sql_query", query_id, APPROVED)
    /\ UNCHANGED <<now, hitl_vars, pending_approvals, monitoring_vars, proposed,
                   thread_vars, direct_vars>>

\* approve_sql_query, run without interruption (one event-loop callback)
approve_sql_query(query_id) ==
    /\ IF ~InDict(pending_approvals, query_id)
       THEN /\ ret' = Ret("approve_sql_query", query_id, NOT_FOUND)
            /\ UNCHANGED <<pending_approvals, executed, resolutions>>
       ELSE LET approval_request == DictGet(pending_approvals, query_id)
            IN  /\ executed' = execute_database_query(executed, "approve_sql_query",
                                   approval_request.natural_language_query,
                                   approval_request.generated_sql,
                                   approval_request.risk_level, approval_request.req)
                /\ pending_approvals' = DictDel(pending_approvals, query_id)
                /\ resolutions' = Append(resolutions,
                                     [req |-> approval_request.req, by |-> "approve"])
                /\ ret' = Ret("approve_sql_query", query_id, APPROVED)
    /\ UNCHANGED <<now, hitl_vars, monitoring_vars, proposed, thread_vars, direct_vars>>

\* variant: the rejected request is not removed from the pending approvals
reject_sql_query_no_del(query_id) ==
    /\ IF ~InDict(pending_approvals, query_id)
       THEN /\ ret' = Ret("reject_sql_query", query_id, NOT_FOUND)
            /\ UNCHANGED resolutions
       ELSE LET approval_request == DictGet(pending_approvals, query_id)
            IN  /\ resolutions' = Append(resolutions,
                                     [req |-> approval_request.req, by |-> "reject"])
                /\ ret' = Ret("reject_sql_query", query_id, REJECTED)
    /\ UNCHANGED <<now, hitl_vars, pending_approvals, monitoring_vars, executed, proposed,
                   thread_vars, direct_vars>>

\* variant: no membership test, the request is removed with pop(query_id, None)
reject_sql_query_pop(query_id) ==
    /\ pending_approvals' = DictDel(pending_approvals, query_id)
    /\ resolutions' =
           IF InDict(pending_approvals, query_id)
           THEN Append(resolutions, [req |-> DictGet(pending_approvals, query_id).req,
                                     by |-> "reject"])
           ELSE resolutions
    /\ ret' = Ret("reject_sql_query", query_id, REJECTED)
    /\ UNCHANGED <<now, hitl_vars, monitoring_vars, executed, proposed, thread_vars,
                   direct_vars>>

\* variant: the body of approve_sql_query pasted into reject_sql_query
reject_sql_query_executes(query_id) ==
    /\ IF ~InDict(pending_approvals, query_id)
       THEN /\ ret' = Ret("reject_sql_query", query_id, NOT_FOUND)
            /\ UNCHANGED <<pending_approvals, executed, resolutions>>
       ELSE LET approval_request == DictGet(pending_approvals, query_id)
            IN  /\ executed' = execute_database_query(executed, "reject_sql_query",
                                   approval_request.natural_language_query,
                                   approval_request.generated_sql,
                                   approval_request.risk_level, approval_request.req)
                /\ pending_approvals' = DictDel(pending_approvals, query_id)
                /\ resolutions' = Append(resolutions,
                                     [req |-> approval_request.req, by |-> "reject"])
                /\ ret' = Ret("reject_sql_query", query_id, REJECTED)
    /\ UNCHANGED <<now, hitl_vars, monitoring_vars, proposed, thread_vars, direct_vars>>

\* reject_sql_query, run without interruption
reject_sql_query(query_id) ==
    /\ IF ~InDict(pending_approvals, query_id)
       THEN /\ ret' = Ret("reject_sql_query", query_id, NOT_FOUND)
            /\ UNCHANGED <<pending_approvals, resolutions>>
       ELSE LET approval_request == DictGet(pending_approvals, query_id)
            IN  /\ pending_approvals' = DictDel(pending_approvals, query_id)
                /\ resolutions' = Append(resolutions,
                                     [req |-> approval_request.req, by |-> "reject"])
                /\ ret' = Ret("reject_sql_query", query_id, REJECTED)
    /\ UNCHANGED <<now, hitl_vars, monitoring_vars, executed, proposed, thread_vars, direct_vars>>

\* POST /hitl/config
update_hitl_config(new_enabled, new_auto_approve_safe_queries) ==
    /\ enabled' = IF new_enabled # <<>> THEN new_enabled[1] ELSE enabled
    /\ auto_approve_safe_queries' =
           IF new_auto_approve_safe_queries # <<>>
           THEN new_auto_approve_safe_queries[1] ELSE auto_approve_safe_queries
    /\ ret' = Ret("update_hitl_config", NoId, CONFIG_UPDATED)
    /\ UNCHANGED <<now, require_approval_for_sensitive_tables, pending_approvals,
                   monitoring_vars, executed, proposed, resolutions, thread_vars, direct_vars>>

\* GET /hitl/pending: the values of the dict, in its iteration order
get_pending_approvals ==
    [pending_count |-> Len(pending_approvals),
     pending_approvals |->
         [i \in DOMAIN pending_approvals |->
             [query_id |-> pending_approvals[i].query_id,
              natural_language_query |-> pending_approvals[i].natural_language_query,
              generated_sql |-> pending_approvals[i].generated_sql,
              risk_level |-> pending_approvals[i].risk_level,
              reason |-> pending_approvals[i].reason,
              timestamp |-> pending_approvals[i].timestamp]]]

Next ==
    \/ Tick /\ UNCHANGED <<chain_vars, graph_vars, exec_vars, runs_vars, api_vars>>
    \/ \E q \in NLQueries : query_database(q) /\ UNCHANGED <<chain_vars, graph_vars, exec_vars, runs_vars, api_vars>>
    \/ \E id \in QueryIds : approve_sql_query(id) /\ UNCHANGED <<chain_vars, graph_vars, exec_vars, runs_vars, api_vars>>
    \/ \E id \in QueryIds : reject_sql_query(id) /\ UNCHANGED <<chain_vars, graph_vars, exec_vars, runs_vars, api_vars>>
    \/ \E e \in OptionalBool, a \in OptionalBool :
           update_hitl_config(e, a) /\ UNCHANGED <<chain_vars, graph_vars, exec_vars, runs_vars, api_vars>>

Spec == Init /\ [][Next]_vars

\* ------------------------------------------------ interleaved callers
\* approve_sql_query and reject_sql_query take no lock: two threads calling them
\* interleave between statements.  Each step below is one statement group.
SetThread(f, t, v) == [f EXCEPT ![t] = v]

\* line 727: the membership test, and the early return
approve_check(t, query_id) ==
    /\ pc[t] = "idle"
    /\ IF ~InDict(pending_approvals, query_id)
       THEN /\ tret' = SetThread(tret, t, NOT_FOUND)
            /\ UNCHANGED <<pc, arg>>
       ELSE /\ pc' = SetThread(pc, t, "approve_execute")
            /\ arg' = SetThread(arg, t, query_id)
            /\ tret' = SetThread(tret, t, "running")
    /\ UNCHANGED <<now, hitl_vars, pending_approvals, monitoring_vars, executed, proposed,
                   resolutions, ret, held, direct_vars>>

\* lines 730-737: read the request (KeyError when it is gone) and execute it
approve_execute(t) ==
    /\ pc[t] = "approve_execute"
    /\ IF ~InDict(pending_approvals, arg[t])
       THEN /\ pc' = SetThread(pc, t, "idle")
            /\ tret' = SetThread(tret, t, "KeyError")
            /\ UNCHANGED <<held, executed>>
       ELSE LET approval_request == DictGet(pending_approvals, arg[t])
            IN  /\ held' = SetThread(held, t, approval_request)
                /\ executed' = execute_database_query(executed, "approve_sql_query",
                                   approval_request.natural_language_query,
                                   approval_request.generated_sql,
                                   approval_request.risk_level, approval_request.req)
                /\ pc' = SetThread(pc, t, "approve_delete")
                /\ UNCHANGED tret
    /\ UNCHANGED <<now, hitl_vars, pending_approvals, monitoring_vars, proposed,
                   resolutions, ret, arg, direct_vars>>

\* line 740: del (KeyError when the key is gone), then the return
approve_delete(t) ==
    /\ pc[t] = "approve_delete"
    /\ IF ~InDict(pending_approvals, arg[t])
       THEN /\ tret' = SetThread(tret, t, "KeyError")
            /\ UNCHANGED <<pending_approvals, resolutions>>
       ELSE /\ pending_approvals' = DictDel(pending_approvals, arg[t])
            /\ resolutions' = Append(resolutions, [req |-> held[t].req, by |-> "approve"])
            /\ tret' = SetThread(tret, t, APPROVED)
    /\ pc' = SetThread(pc, t, "idle")
    /\ held' = SetThread(held, t, NoRequest)
    /\ UNCHANGED <<now, hitl_vars, monitoring_vars, executed, proposed, ret, arg, direct_vars>>

\* line 757: the membership test, and the early return
reject_check(t, query_id) ==
    /\ pc[t] = "idle"
    /\ IF ~InDict(pending_approvals, query_id)
       THEN /\ tret' = SetThread(tret, t, NOT_FOUND)
            /\ UNCHANGED <<pc, arg>>
       ELSE /\ pc' = SetThread(pc, t, "reject_read")
            /\ arg' = SetThread(arg, t, query_id)
            /\ tret' = SetThread(tret, t, "running")
    /\ UNCHANGED <<now, hitl_vars, pending_approvals, monitoring_vars, executed, proposed,
                   resolutions, ret, held, direct_vars>>

\* line 760: read the request (KeyError when it is gone)
reject_read(t) ==
    /\ pc[t] = "reject_read"
    /\ IF ~InDict(pending_approvals, arg[t])
       THEN /\ pc' = SetThread(pc, t, "idle")
            /\ tret' = SetThread(tret, t, "KeyError")
            /\ UNCHANGED held
       ELSE /\ held' = SetThread(held, t, DictGet(pending_approvals, arg[t]))
            /\ pc' = SetThread(pc, t, "reject_delete")
            /\ UNCHANGED tret
    /\ UNCHANGED <<now, hitl_vars, pending_approvals, monitoring_vars, executed, proposed,
                   resolutions, ret, arg, direct_vars>>

\* line 763: del (KeyError when the key is gone), then the return
reject_delete(t) ==
    /\ pc[t] = "reject_delete"
    /\ IF ~InDict(pending_approvals, arg[t])
       THEN /\ tret' = SetThread(tret, t, "KeyError")
            /\ UNCHANGED <<pending_approvals, resolutions>>
       ELSE /\ pending_approvals' = DictDel(pending_approvals, arg[t])
            /\ resolutions' = Append(resolutions, [req |-> held[t].req, by |-> "reject"])
            /\ tret' = SetThread(tret, t, REJECTED)
    /\ pc' = SetThread(pc, t, "idle")
    /\ held' = SetThread(held, t, NoRequest)
    /\ UNCHANGED <<now, hitl_vars, monitoring_vars, executed, proposed, ret, arg, direct_vars>>

NextThreads ==
    \/ Tick /\ UNCHANGED <<chain_vars, graph_vars, exec_vars, runs_vars, api_vars>>
    \/ \E q \in NLQueries : query_database(q) /\ UNCHANGED <<chain_vars, graph_vars, exec_vars, runs_vars, api_vars>>
    \/ \E t \in Threads, id \in QueryIds : approve_check(t, id) /\ UNCHANGED <<chain_vars, graph_vars, exec_vars, runs_vars, api_vars>>
    \/ \E t \in Threads : approve_execute(t) /\ UNCHANGED <<chain_vars, graph_vars, exec_vars, runs_vars, api_vars>>
    \/ \E t \in Threads : approve_delete(t) /\ UNCHANGED <<chain_vars, graph_vars, exec_vars, runs_vars, api_vars>>
    \/ \E t \in Threads, id \in QueryIds : reject_check(t, id) /\ UNCHANGED <<chain_vars, graph_vars, exec_vars, runs_vars, api_vars>>
    \/ \E t \in Threads : reject_read(t) /\ UNCHANGED <<chain_vars, graph_vars, exec_vars, runs_vars, api_vars>>
    \/ \E t \in Threads : reject_delete(t) /\ UNCHANGED <<chain_vars, graph_vars, exec_vars, runs_vars, api_vars>>

SpecThreads == Init /\ [][NextThreads]_vars

\* ------------------------------------------- the two functions called directly
\* the inputs of the functions are drawn: the statement, and the policy flags
\* that HumanInTheLoopConfig holds
InitDirect ==
    /\ now = 0
    /\ enabled \in BOOLEAN
    /\ require_approval_for_sensitive_tables \in BOOLEAN
    /\ auto_approve_safe_queries \in BOOLEAN
    /\ pending_approvals = <<>>
    /\ agent_executions = <<>>
    /\ tool_calls = <<>>
    /\ errors = <<>>
    /\ start_time = 0
    /\ executed = <<>>
    /\ proposed = <<>>
    /\ resolutions = <<>>
    /\ ret = Ret("none", NoId, "none")
    /\ pc = [t \in Threads |-> "idle"]
    /\ arg = [t \in Threads |-> NoId]
    /\ held = [t \in Threads |-> NoRequest]
    /\ tret = [t \in Threads |-> "none"]
    /\ payload \in Payloads
    /\ analyses = <<>>
    /\ approval = NoApproval
    /\ InitChain
    /\ InitGraph
    /\ InitExecutor
    /\ InitRuns
    /\ InitApi

\* a call of _analyze_sql_risk(payload); the value of enabled at the call is kept
\* with the result
analyze_call ==
    /\ Len(analyses) < MaxAnalyses
    /\ analyses' = Append(analyses, [result |-> SqlRisk[payload], enabled |-> enabled])
    /\ UNCHANGED <<now, hitl_vars, pending_approvals, monitoring_vars, executed, proposed,
                   resolutions, ret, thread_vars, payload, approval>>

\* a call of _requires_human_approval(payload, risk_level); the flags it read are
\* kept with the result
approval_call(risk_level) ==
    /\ approval' = [risk_level |-> risk_level, enabled |-> enabled,
                    require_approval_for_sensitive_tables |->
                        require_approval_for_sensitive_tables,
                    auto_approve_safe_queries |-> auto_approve_safe_queries,
                    required |-> requires_human_approval(payload, risk_level)]
    /\ UNCHANGED <<now, hitl_vars, pending_approvals, monitoring_vars, executed, proposed,
                   resolutions, ret, thread_vars, payload, analyses>>

NextDirect ==
    \/ analyze_call /\ UNCHANGED <<chain_vars, graph_vars, exec_vars, runs_vars, api_vars>>
    \/ \E risk_level \in RiskLevels : approval_call(risk_level) /\ UNCHANGED <<chain_vars, graph_vars, exec_vars, runs_vars, api_vars>>
    \/ \E e \in OptionalBool, a \in OptionalBool :
           update_hitl_config(e, a) /\ UNCHANGED <<chain_vars, graph_vars, exec_vars, runs_vars, api_vars>>

SpecDirect == InitDirect /\ [][NextDirect]_vars

\* ------------------------------------------------- the supervisor chain
\* preprocess | agent_executor | postprocess.  The LLM is outside the program:
\* what it replies (content, tool calls) is drawn.
HumanMessage(content) == [type |-> "human", content |-> content, tool_calls |-> <<>>]
AIMessage(content, calls) == [type |-> "ai", content |-> content, tool_calls |-> calls]
\* a ToolMessage keeps what the tool returned and the id of the call it answers
ToolMessage(result, tool_call_id, name) ==
    [type |-> "tool", content |-> result, tool_call_id |-> tool_call_id, name |-> name]
\* tool_call.get("id", f"call_{tool_name}")
tool_id(tool_call) ==
    IF "id" \in DOMAIN tool_call THEN tool_call.id ELSE "call_" \o tool_call.name
\* the tools bound to the LLM
tools == {"investigate_logs", "search_knowledge", "query_database"}
\* what an LLM reply may hold as text
Contents == {"", "ANSWER"}
\* the tool calls of a reply: calls of query_database
ToolCall(q) == [name |-> "query_database", args |-> q]
ToolCallLists(n) ==
    UNION {[1..k -> {ToolCall(q) : q \in NLQueries}] : k \in 0..n}
NO_RESPONSE == "No response generated"

\* MonitoringMiddleware.track_agent_start / track_agent_complete
track_agent_start(execs, agent_name) ==
    Append(execs, [agent |-> agent_name, start_time |-> now])
track_agent_complete(execs, agent_name) ==
    LET open == {i \in DOMAIN execs :
                    execs[i].agent = agent_name /\ "end_time" \notin DOMAIN execs[i]}
    IN  IF open = {} THEN execs
        ELSE LET i == CHOOSE j \in open : \A k \in open : k <= j
             IN  [execs EXCEPT ![i] = [agent |-> @.agent, start_time |-> @.start_time,
                                       end_time |-> now,
                                       duration |-> now - @.start_time]]

\* supervisor.invoke: preprocess resets the recorder and starts the supervisor
\* record; agent_executor converts the messages and asks the LLM (with tools)
chain_invoke(content, calls) ==
    /\ chain_pc = "idle"
    /\ runs < MaxRuns
    /\ runs' = runs + 1
    /\ agent_executions' = track_agent_start(<<>>, "supervisor")
    /\ tool_calls' = <<>>
    /\ errors' = <<>>
    /\ start_time' = now
    /\ llm_invocations' = 1
    /\ response' = AIMessage(content, calls)
    /\ tool_messages' = <<>>
    /\ tool_calls_left' = calls
    /\ IF calls # <<>>
       THEN /\ messages' = <<HumanMessage("USER")>>
            /\ chain_pc' = "tools"
       ELSE /\ messages' = <<HumanMessage("USER"), AIMessage(content, calls)>>
            /\ chain_pc' = "postprocess"
    /\ UNCHANGED <<now, hitl_vars, pending_approvals, executed, proposed, resolutions, ret,
                   thread_vars, direct_vars, final_response, graph_vars>>

\* agent_executor, one turn of the loop over response.tool_calls: the tool is
\* invoked and its result appended as a ToolMessage
chain_tool ==
    /\ chain_pc = "tools"
    /\ tool_calls_left # <<>>
    /\ Head(tool_calls_left).name = "query_database"
    /\ query_database(Head(tool_calls_left).args)
    /\ tool_messages' = Append(tool_messages,
                               ToolMessage(ret', tool_id(Head(tool_calls_left)),
                                           Head(tool_calls_left).name))
    /\ tool_calls_left' = Tail(tool_calls_left)
    /\ UNCHANGED <<messages, response, chain_pc, llm_invocations, final_response, runs,
                   graph_vars>>

\* agent_executor after the loop: the LLM (without tools) is asked for the final
\* response and everything is returned
chain_final(content) ==
    /\ chain_pc = "tools"
    /\ tool_calls_left = <<>>
    /\ llm_invocations' = llm_invocations + 1
    /\ messages' = messages \o <<response>> \o tool_messages \o <<AIMessage(content, <<>>)>>
    /\ chain_pc' = "postprocess"
    /\ UNCHANGED <<now, hitl_vars, pending_approvals, monitoring_vars, executed, proposed,
                   resolutions, ret, thread_vars, direct_vars, response, tool_calls_left,
                   tool_messages, final_response, runs, graph_vars>>

\* postprocess: the last AIMessage with content is the final response
chain_postprocess ==
    /\ chain_pc = "postprocess"
    /\ agent_executions' = track_agent_complete(agent_executions, "supervisor")
    /\ LET with_content == {i \in DOMAIN messages :
                               messages[i].type = "ai" /\ messages[i].content # ""}
       IN  final_response' =
               IF with_content = {} THEN NO_RESPONSE
               ELSE messages[CHOOSE i \in with_content : \A j \in with_content : j <= i].content
    /\ chain_pc' = "idle"
    /\ UNCHANGED <<now, hitl_vars, pending_approvals, tool_calls, errors, start_time,
                   executed, proposed, resolutions, ret, thread_vars, direct_vars, messages,
                   response, tool_calls_left, tool_messages, llm_invocations, runs,
                   graph_vars>>

NextChain ==
    \/ Tick /\ UNCHANGED <<chain_vars, graph_vars, exec_vars, runs_vars, api_vars>>
    \/ \E content \in Contents, calls \in ToolCallLists(MaxCalls - NumCalls) :
           chain_invoke(content, calls) /\ UNCHANGED <<exec_vars, runs_vars, api_vars>>
    \/ chain_tool /\ UNCHANGED <<exec_vars, runs_vars, api_vars>>
    \/ \E content \in Contents : chain_final(content) /\ UNCHANGED <<exec_vars, runs_vars, api_vars>>
    \/ chain_postprocess /\ UNCHANGED <<exec_vars, runs_vars, api_vars>>
    \/ \E id \in QueryIds : chain_pc = "idle" /\ approve_sql_query(id) /\ UNCHANGED <<chain_vars, graph_vars, exec_vars, runs_vars, api_vars>>
    \/ \E id \in QueryIds : chain_pc = "idle" /\ reject_sql_query(id) /\ UNCHANGED <<chain_vars, graph_vars, exec_vars, runs_vars, api_vars>>

SpecChain == Init /\ [][NextChain]_vars

\* ------------------------------- the chain with collaborators that may fail
\* A tool invocation may raise and the LLM may raise; the LLM may also request a
\* tool that is not bound.  What the caller of supervisor.invoke sees of an
\* exception is kept in raised.
RAISED == "raised"
TOOL_FAILURE == "tool failure"
\* str(e) of a failed LLM invocation
LLM_FAILURE == "llm failure"
\* f"Error executing tool {tool_name}: {str(e)}"
ErrorContent(tool_name, error) == [error_executing_tool |-> tool_name, error |-> error]

\* MonitoringMiddleware.track_tool_error: as track_tool_complete, with the status
\* "error" and the error text (idx is 1-based here, 0-based in the code)
track_tool_error(calls, idx, error) ==
    IF idx <= Len(calls)
    THEN [calls EXCEPT ![idx] = [tool |-> @.tool, args |-> @.args,
                                 start_time |-> @.start_time, end_time |-> now,
                                 duration |-> now - @.start_time,
                                 status |-> "error",
                                 error |-> error]]
    ELSE calls
\* MonitoringMiddleware.track_error
track_error(errs, error, context) ==
    Append(errs, [error |-> error, context |-> context, timestamp |-> now])
\* MonitoringMiddleware.get_summary
get_summary ==
    [agent_executions |-> agent_executions,
     tool_calls |-> tool_calls,
     errors |-> errors,
     total_duration |-> now - start_time,
     total_agents_called |-> Len(agent_executions),
     total_tools_called |-> Len(tool_calls)]

\* the tool calls a reply of the LLM may hold: each with the id the LLM gave it;
\* "run_sql" is not one of the bound tools
RequestedCall(name, args, id) == [name |-> name, args |-> args, id |-> id]
RequestedCallLists ==
    {<<>>,
     <<RequestedCall("query_database", NL_FAILED_ORDERS, "call_1")>>,
     <<RequestedCall("query_database", NL_REVENUE, "call_1")>>,
     <<RequestedCall("run_sql", NL_FAILED_ORDERS, "call_1"),
       RequestedCall("query_database", NL_FAILED_ORDERS, "call_2")>>,
     <<RequestedCall("query_database", NL_DELETE_ORDER, "call_1"),
       RequestedCall("query_database", NL_FAILED_ORDERS, "call_2")>>}
\* how many calls of a list reach query_database
QueryCalls(calls) == Cardinality({i \in DOMAIN calls : calls[i].name = "query_database"})

\* variant: the exception of the tool leaves agent_executor
chain_tool_raises_propagates(entered) ==
    /\ chain_pc = "tools"
    /\ tool_calls_left # <<>>
    /\ Head(tool_calls_left).name \in tools
    /\ ret' = Ret(Head(tool_calls_left).name, NoId, RAISED)
    /\ chain_pc' = "idle"
    /\ raised' = "tool"
    /\ last_summary' = NoSummary
    /\ UNCHANGED <<now, hitl_vars, pending_approvals, monitoring_vars, executed, proposed,
                   resolutions, thread_vars, direct_vars, messages, response,
                   tool_calls_left, tool_messages, llm_invocations, final_response, runs,
                   graph_vars, runs_vars>>

\* one turn of the loop, the tool raises: either tool_func.invoke rejects the
\* arguments before the body of the tool is entered, or the body raises after its
\* track_tool_call, records track_tool_error and raises again; agent_executor
\* records the error and appends an error ToolMessage
chain_tool_raises(entered) ==
    /\ chain_pc = "tools"
    /\ tool_calls_left # <<>>
    /\ Head(tool_calls_left).name \in tools
    /\ LET tool_call == Head(tool_calls_left)
           idx == Len(tool_calls) + 1
           started == track_tool_call(tool_calls, tool_call.name,
                                      [query |-> tool_call.args, table_hint |-> "None"])
       IN  /\ tool_calls' = IF entered THEN track_tool_error(started, idx, TOOL_FAILURE)
                            ELSE tool_calls
           /\ errors' = track_error(errors, TOOL_FAILURE, <<"Tool execution", tool_call.name>>)
           /\ tool_messages' = Append(tool_messages,
                                      ToolMessage(ErrorContent(tool_call.name, TOOL_FAILURE),
                                                  tool_id(tool_call), tool_call.name))
           /\ ret' = Ret(tool_call.name, NoId, RAISED)
    /\ tool_calls_left' = Tail(tool_calls_left)
    /\ last_summary' = NoSummary
    /\ UNCHANGED <<now, hitl_vars, pending_approvals, agent_executions, start_time, executed,
                   proposed, resolutions, thread_vars, direct_vars, messages, response,
                   chain_pc, llm_invocations, final_response, runs, graph_vars, raised,
                   runs_vars>>

\* one turn of the loop, the requested name is not the name of a bound tool:
\* tool_func stays None and the turn does nothing
chain_tool_unknown ==
    /\ chain_pc = "tools"
    /\ tool_calls_left # <<>>
    /\ Head(tool_calls_left).name \notin tools
    /\ tool_calls_left' = Tail(tool_calls_left)
    /\ UNCHANGED <<now, hitl_vars, pending_approvals, monitoring_vars, executed, proposed,
                   resolutions, ret, thread_vars, direct_vars, messages, response,
                   tool_messages, chain_pc, llm_invocations, final_response, runs,
                   graph_vars, exec_vars, runs_vars>>

\* supervisor.invoke, the first LLM call raises: preprocess has run, nothing
\* catches the exception inside the chain, postprocess does not run
chain_invoke_raises ==
    /\ chain_pc = "idle"
    /\ runs < MaxRuns
    /\ runs' = runs + 1
    /\ agent_executions' = track_agent_start(<<>>, "supervisor")
    /\ tool_calls' = <<>>
    /\ errors' = <<>>
    /\ start_time' = now
    /\ llm_invocations' = 1
    /\ response' = NoMessage
    /\ tool_messages' = <<>>
    /\ tool_calls_left' = <<>>
    /\ messages' = <<HumanMessage("USER")>>
    /\ raised' = "llm"
    /\ last_summary' = NoSummary
    /\ UNCHANGED <<now, hitl_vars, pending_approvals, executed, proposed, resolutions, ret,
                   thread_vars, direct_vars, chain_pc, final_response, graph_vars,
                   runs_vars>>

\* agent_executor after the loop, the second LLM call raises: the exception
\* leaves the chain, postprocess does not run
chain_final_raises ==
    /\ chain_pc = "tools"
    /\ tool_calls_left = <<>>
    /\ llm_invocations' = llm_invocations + 1
    /\ chain_pc' = "idle"
    /\ raised' = "llm"
    /\ UNCHANGED <<now, hitl_vars, pending_approvals, monitoring_vars, executed, proposed,
                   resolutions, ret, thread_vars, direct_vars, messages, response,
                   tool_calls_left, tool_messages, final_response, runs, graph_vars,
                   last_summary, runs_vars>>

\* GET /monitoring/summary
monitoring_summary ==
    /\ last_summary' = get_summary
    /\ UNCHANGED <<now, hitl_vars, pending_approvals, monitoring_vars, executed, proposed,
                   resolutions, ret, thread_vars, direct_vars, chain_vars, graph_vars,
                   raised, runs_vars>>

NextExecutor ==
    \/ Tick /\ UNCHANGED <<chain_vars, graph_vars, exec_vars, runs_vars, api_vars>>
    \/ \E content \in Contents, calls \in RequestedCallLists :
           /\ QueryCalls(calls) <= MaxCalls - NumCalls
           /\ chain_invoke(content, calls)
           /\ raised' = "none"
           /\ last_summary' = NoSummary
           /\ UNCHANGED <<runs_vars, api_vars>>
    \/ chain_invoke_raises /\ UNCHANGED api_vars
    \/ chain_tool /\ last_summary' = NoSummary /\ UNCHANGED <<raised, runs_vars, api_vars>>
    \/ \E entered \in BOOLEAN : chain_tool_raises(entered) /\ UNCHANGED api_vars
    \/ chain_tool_unknown /\ UNCHANGED api_vars
    \/ \E content \in Contents : chain_final(content) /\ UNCHANGED <<exec_vars, runs_vars, api_vars>>
    \/ chain_final_raises /\ UNCHANGED api_vars
    \/ chain_postprocess /\ last_summary' = NoSummary /\ UNCHANGED <<raised, runs_vars, api_vars>>
    \/ monitoring_summary /\ UNCHANGED api_vars

SpecExecutor == Init /\ [][NextExecutor]_vars

\* ------------------------------------------------- the supervisor graph
\* supervisor_agent.py: START -> supervisor -> (team -> supervisor)* -> END, run by
\* chat of main.py on a thread kept by the checkpointer.
\* user messages given to chat
MSG_COMPARE ==
    <<"C", "o", "m", "p", "a", "r", "e", " ", "o", "r", "d", "e", "r", "s", " ", "G",
      "O", "O", "D", "0", "0", "1", " ", "a", "n", "d", " ", "B", "A", "D", "0", "0",
      "1">>
MSG_ORDER_ID ==
    <<"W", "h", "a", "t", " ", "h", "a", "p", "p", "e", "n", "e", "d", " ", "t", "o",
      " ", "o", "r", "d", "e", "r", " ", "B", "A", "D", "0", "0", "1", "?">>
MSG_SHOW ==
    <<"s", "h", "o", "w", " ", "a", "l", "l", " ", "f", "a", "i", "l", "e", "d", " ",
      "o", "r", "d", "e", "r", "s">>
MSG_HELLO ==
    <<"h", "e", "l", "l", "o">>
MSG_EMPTY == <<>>
UserMessages == {MSG_COMPARE, MSG_ORDER_ID, MSG_SHOW, MSG_HELLO, MSG_EMPTY}
\* messages given to supervisor_node directly
MSG_COMPARE_SHOW ==
    <<"c", "o", "m", "p", "a", "r", "e", " ", "t", "h", "e", " ", "t", "w", "o", " ",
      "a", "n", "d", " ", "s", "h", "o", "w", " ", "t", "h", "e", " ", "r", "e", "s",
      "u", "l", "t">>
MSG_HOW_MANY ==
    <<"h", "o", "w", " ", "m", "a", "n", "y", " ", "o", "r", "d", "e", "r", "s", " ",
      "f", "a", "i", "l", "e", "d", " ", "t", "o", "d", "a", "y">>
RoutingMessages == UserMessages \cup {MSG_COMPARE_SHOW, MSG_HOW_MANY}
\* replies of the routing LLM
REPLY_LOG ==
    <<"l", "o", "g", "_", "t", "e", "a", "m">>
REPLY_KNOWLEDGE ==
    <<" ", "K", "n", "o", "w", "l", "e", "d", "g", "e", "_", "t", "e", "a", "m", "\n">>
REPLY_DB ==
    <<"T", "h", "e", " ", "d", "a", "t", "a", "b", "a", "s", "e", " ", "t", "e", "a",
      "m">>
REPLY_FINISH ==
    <<"F", "I", "N", "I", "S", "H">>
REPLY_OTHER ==
    <<"I", " ", "c", "a", "n", "n", "o", "t", " ", "d", "e", "c", "i", "d", "e">>
Replies == {REPLY_LOG, REPLY_KNOWLEDGE, REPLY_DB, REPLY_FINISH, REPLY_OTHER}
\* the keywords of supervisor_node
KW_COMPARE ==
    <<"c", "o", "m", "p", "a", "r", "e">>
RW_SHOW ==
    <<"s", "h", "o", "w">>
RW_LIST ==
    <<"l", "i", "s", "t">>
RW_COUNT ==
    <<"c", "o", "u", "n", "t">>
RW_TOTAL ==
    <<"t", "o", "t", "a", "l">>
RW_ALL_ORDERS ==
    <<"a", "l", "l", " ", "o", "r", "d", "e", "r", "s">>
RW_STATISTICS ==
    <<"s", "t", "a", "t", "i", "s", "t", "i", "c", "s">>
RW_REVENUE ==
    <<"r", "e", "v", "e", "n", "u", "e">>
RW_HOW_MANY ==
    <<"h", "o", "w", " ", "m", "a", "n", "y">>
RW_WHAT ==
    <<"w", "h", "a", "t">>
RW_WHY ==
    <<"w", "h", "y">>
RW_EXPLAIN ==
    <<"e", "x", "p", "l", "a", "i", "n">>
RW_HOW ==
    <<"h", "o", "w">>
RW_CAUSES ==
    <<"c", "a", "u", "s", "e", "s">>
RW_GUIDE ==
    <<"g", "u", "i", "d", "e">>
RW_DOCUMENTATION ==
    <<"d", "o", "c", "u", "m", "e", "n", "t", "a", "t", "i", "o", "n">>
db_words == <<RW_SHOW, RW_LIST, RW_COUNT, RW_TOTAL, RW_ALL_ORDERS, RW_STATISTICS, RW_REVENUE, RW_HOW_MANY>>
knowledge_words ==
    <<RW_WHAT, RW_WHY, RW_EXPLAIN, RW_HOW, RW_CAUSES, RW_GUIDE, RW_DOCUMENTATION>>
KW_LOG ==
    <<"l", "o", "g">>
KW_KNOWLEDGE ==
    <<"k", "n", "o", "w", "l", "e", "d", "g", "e">>
KW_DB ==
    <<"d", "b">>
KW_DATABASE ==
    <<"d", "a", "t", "a", "b", "a", "s", "e">>
max_events == 20
Members == {"log_team", "knowledge_team", "db_team"}
FINISH == "FINISH"
Digits == {"0", "1", "2", "3", "4", "5", "6", "7", "8", "9"}
\* \w of the regular expressions
IsWordChar(c) == c \in Range(LowerChars) \cup Range(UpperChars) \cup Digits \cup {"_"}
\* re.search(r'\b[A-Z]+\d+\b', text): upper-case letters, then digits, as a whole word
has_order_ids(text) ==
    \E i \in DOMAIN text : \E j \in i..Len(text) : \E k \in (j + 1)..Len(text) :
        /\ \A x \in i..j : text[x] \in Range(UpperChars)
        /\ \A x \in (j + 1)..k : text[x] \in Digits
        /\ i = 1 \/ ~IsWordChar(text[i - 1])
        /\ k = Len(text) \/ ~IsWordChar(text[k + 1])
\* str.strip()
strip(text) ==
    LET solid == {i \in DOMAIN text : ~(text[i] \in {" ", "\n", "\t"})}
    IN  IF solid = {} THEN <<>>
        ELSE SubSeq(text, MinOf(solid), CHOOSE i \in solid : \A j \in solid : j <= i)

\* lines 50-55: the last human message, lower-cased ("" when there is none)
user_query(msgs) ==
    LET humans == {i \in DOMAIN msgs : msgs[i].type = "human"}
    IN  IF humans = {} THEN <<>>
        ELSE lower(msgs[CHOOSE i \in humans : \A j \in humans : j <= i].content)
\* lines 60-67: the AI messages after the last human message
ai_count_this_turn(msgs) ==
    Cardinality({i \in DOMAIN msgs :
                    /\ msgs[i].type = "ai"
                    /\ \A j \in i..Len(msgs) : msgs[j].type # "human"})
\* lines 73-87: the keyword rules on the lower-cased message ("ask" when none matches)
keyword_route(query) ==
    IF has_order_ids(query) \/ Contains(KW_COMPARE, query) THEN "log_team"
    ELSE IF \E i \in DOMAIN db_words : Contains(db_words[i], query) THEN "db_team"
    ELSE IF \E i \in DOMAIN knowledge_words : Contains(knowledge_words[i], query)
         THEN "knowledge_team"
    ELSE "ask"
\* lines 93-102: the reading of the LLM's reply
reply_route(reply) ==
    LET content == lower(strip(reply))
    IN  IF Contains(KW_LOG, content) THEN "log_team"
        ELSE IF Contains(KW_KNOWLEDGE, content) THEN "knowledge_team"
        ELSE IF Contains(KW_DB, content) \/ Contains(KW_DATABASE, content) THEN "db_team"
        ELSE FINISH
\* the two tabulated over the model's texts
KeywordRoute == [m \in RoutingMessages |-> keyword_route(lower(m))]
ReplyRoute == [r \in Replies |-> reply_route(r)]
\* the human messages of the model hold the texts of UserMessages, so the route of
\* user_query(msgs) is looked up by the message it was lower-cased from
LastHuman(msgs) ==
    LET humans == {i \in DOMAIN msgs : msgs[i].type = "human"}
    IN  msgs[CHOOSE i \in humans : \A j \in humans : j <= i].content

\* variant: the routing ignores the responses already given in the turn
supervisor_node_no_count(msgs, reply) ==
    IF user_query(msgs) = <<>> THEN FINISH
    ELSE IF KeywordRoute[LastHuman(msgs)] # "ask" THEN KeywordRoute[LastHuman(msgs)]
    ELSE ReplyRoute[reply]
\* variant: the reply of the LLM is returned as it is
supervisor_node_raw_reply(msgs, reply) ==
    IF user_query(msgs) = <<>> THEN FINISH
    ELSE IF ai_count_this_turn(msgs) > 0 THEN FINISH
    ELSE IF KeywordRoute[LastHuman(msgs)] # "ask" THEN KeywordRoute[LastHuman(msgs)]
    ELSE IF ReplyRoute[reply] = FINISH THEN "unknown" ELSE ReplyRoute[reply]
\* variant: an earlier turn's responses are counted too
supervisor_node_counts_all(msgs, reply) ==
    IF user_query(msgs) = <<>> THEN FINISH
    ELSE IF \E i \in DOMAIN msgs : msgs[i].type = "ai" THEN FINISH
    ELSE IF KeywordRoute[LastHuman(msgs)] # "ask" THEN KeywordRoute[LastHuman(msgs)]
    ELSE ReplyRoute[reply]

\* supervisor_node: the value of "next" it returns
supervisor_node(msgs, reply) ==
    IF user_query(msgs) = <<>> THEN FINISH
    ELSE IF ai_count_this_turn(msgs) > 0 THEN FINISH
    ELSE IF KeywordRoute[LastHuman(msgs)] # "ask" THEN KeywordRoute[LastHuman(msgs)]
    ELSE ReplyRoute[reply]
\* whether supervisor_node reaches line 91 and asks the LLM
asks_llm(msgs) ==
    /\ user_query(msgs) # <<>>
    /\ ai_count_this_turn(msgs) = 0
    /\ KeywordRoute[LastHuman(msgs)] = "ask"

GraphMessage(type, content, name) == [type |-> type, content |-> content, name |-> name]
\* what a team's agent adds to the conversation: its answer, or a tool round and
\* then its answer
AgentOutputs ==
    {<<GraphMessage("ai", "ANSWER", "None")>>,
     <<GraphMessage("ai", "", "None"), GraphMessage("tool", "RESULT", "None"),
       GraphMessage("ai", "ANSWER", "None")>>}

\* chat, lines 105-108: the names of the messages of an event that agent_path does
\* not hold yet are appended to it, in the order of the messages ("None": no name)
extend_path(path, msgs) ==
    LET names == path \o [i \in DOMAIN msgs |-> msgs[i].name]
        appended == {i \in DOMAIN names :
                        /\ names[i] # "None"
                        /\ \A j \in 1..(i - 1) : names[j] # names[i]}
    IN  [k \in 1..Cardinality(appended) |->
            names[CHOOSE i \in appended : Cardinality({j \in appended : j <= i}) = k]]

\* chat, up to the first event of the stream: the request's message is added to
\* the thread's state
chat_request(message) ==
    /\ node = "idle"
    /\ turns < MaxTurns
    /\ turns' = turns + 1
    /\ graph_messages' = Append(graph_messages, GraphMessage("human", message, "None"))
    /\ final_state' = graph_messages'
    /\ events_count' = 1
    /\ cut' = FALSE
    /\ node' = "supervisor"
    /\ handler_invocations' = 0
    /\ supervisor_decisions' = 0
    /\ graph_llm_invocations' = 0
    /\ agent_path' = extend_path(<<>>, graph_messages')
    /\ handlers_run' = <<>>
    /\ UNCHANGED <<next, response_content, first_decisions>>

\* one event of the stream reaches the loop of chat: counted, and either kept as
\* final_state or the loop is left
stream_event(new_messages, new_node) ==
    /\ events_count' = events_count + 1
    /\ IF events_count + 1 > max_events
       THEN /\ cut' = TRUE
            /\ node' = "END"
            /\ UNCHANGED <<final_state, agent_path>>
       ELSE /\ cut' = FALSE
            /\ node' = new_node
            /\ final_state' = new_messages
            /\ agent_path' = extend_path(agent_path, new_messages)

\* the supervisor node runs and the conditional edge follows "next"
supervisor_step(reply) ==
    /\ node = "supervisor"
    /\ LET decided == supervisor_node(graph_messages, reply)
       IN  /\ next' = decided
           /\ first_decisions' =
                  IF user_query(graph_messages) # <<>> /\ ai_count_this_turn(graph_messages) = 0
                  THEN first_decisions \cup {<<LastHuman(graph_messages), decided>>}
                  ELSE first_decisions
           /\ stream_event(graph_messages, IF decided = FINISH THEN "END" ELSE decided)
    /\ supervisor_decisions' = supervisor_decisions + 1
    /\ graph_llm_invocations' =
           graph_llm_invocations + (IF asks_llm(graph_messages) THEN 1 ELSE 0)
    /\ UNCHANGED <<graph_messages, response_content, handler_invocations, turns,
                   handlers_run>>

\* a team node runs: the agent returns the conversation it was given with its own
\* messages after it, every message is tagged, and the state's reducer
\* (operator.add) appends the whole result
team_node(output) ==
    /\ node \in Members
    /\ LET result == [i \in 1..(Len(graph_messages) + Len(output)) |->
                         LET msg == (graph_messages \o output)[i]
                         IN  GraphMessage(msg.type, msg.content, node)]
       IN  /\ graph_messages' = graph_messages \o result
           /\ stream_event(graph_messages', "supervisor")
    /\ handler_invocations' = handler_invocations + 1
    /\ handlers_run' = Append(handlers_run, node)
    /\ UNCHANGED <<next, response_content, supervisor_decisions, graph_llm_invocations,
                   first_decisions, turns>>

\* chat after the loop: the last AI message with text is the response
chat_respond ==
    /\ node = "END"
    /\ LET with_content == {i \in DOMAIN final_state :
                               final_state[i].type = "ai" /\ final_state[i].content # ""}
       IN  response_content' =
               IF with_content = {} THEN NO_RESPONSE
               ELSE final_state[CHOOSE i \in with_content :
                                    \A j \in with_content : j <= i].content
    /\ node' = "idle"
    /\ UNCHANGED <<graph_messages, next, events_count, final_state, cut,
                   handler_invocations, supervisor_decisions, graph_llm_invocations,
                   first_decisions, turns, agent_path, handlers_run>>

\* everything outside the graph and the services
rest_vars_but_api == <<now, hitl_vars, pending_approvals, monitoring_vars, executed, proposed,
                       resolutions, ret, thread_vars, direct_vars, chain_vars, exec_vars,
                       runs_vars>>
\* everything outside the graph
rest_vars == <<now, hitl_vars, pending_approvals, monitoring_vars, executed, proposed,
               resolutions, ret, thread_vars, direct_vars, chain_vars, exec_vars,
               runs_vars, api_vars>>

NextGraph ==
    \/ \E message \in UserMessages : chat_request(message) /\ UNCHANGED rest_vars
    \/ \E reply \in Replies : supervisor_step(reply) /\ UNCHANGED rest_vars
    \/ \E output \in AgentOutputs : team_node(output) /\ UNCHANGED rest_vars
    \/ chat_respond /\ UNCHANGED rest_vars

SpecGraph == Init /\ [][NextGraph]_vars
\* every started step of a run is taken: the nodes return
SpecGraphFair ==
    SpecGraph /\ WF_vars((\/ \E reply \in Replies : supervisor_step(reply)
                          \/ \E output \in AgentOutputs : team_node(output)
                          \/ chat_respond) /\ UNCHANGED rest_vars)

\* ------------------------------------------ supervisor_node called directly
\* The routing function applied to a fresh conversation that holds one user
\* message; the reply of the LLM, read only by the fallback, is drawn.
MaxDecisions == 2
route_call(message, reply) ==
    /\ Len(routed) < MaxDecisions
    /\ routed' = Append(routed,
                        [message |-> message,
                         next |-> supervisor_node(<<GraphMessage("human", message, "None")>>,
                                                  reply)])
    /\ UNCHANGED <<rest_vars_but_api, graph_vars, deep_chat_vars, db_vars>>

NextRouting ==
    \E message \in RoutingMessages, reply \in Replies : route_call(message, reply)

SpecRouting == Init /\ [][NextRouting]_vars

\* ------------------------------------------ execute_sql_query of db_team.py
\* The tool runs a statement on the one shared in-memory SQLite connection.  Of
\* the database the model keeps the tables, the orders and one value of inventory; what
\* SQLite does with a statement is given per statement.
STMT_SELECT_FAILED ==
    <<"S", "E", "L", "E", "C", "T", " ", "o", "r", "d", "e", "r", "_", "i", "d", " ",
      "F", "R", "O", "M", " ", "o", "r", "d", "e", "r", "s", " ", "W", "H", "E", "R",
      "E", " ", "s", "t", "a", "t", "u", "s", " ", "=", " ", "'", "f", "a", "i", "l",
      "e", "d", "'">>
STMT_SELECT_LAST_UPDATED ==
    <<"S", "E", "L", "E", "C", "T", " ", "p", "r", "o", "d", "u", "c", "t", "_", "i",
      "d", ",", " ", "l", "a", "s", "t", "_", "u", "p", "d", "a", "t", "e", "d", " ",
      "F", "R", "O", "M", " ", "i", "n", "v", "e", "n", "t", "o", "r", "y">>
STMT_SELECT_NAME ==
    <<"S", "E", "L", "E", "C", "T", " ", "p", "r", "o", "d", "u", "c", "t", "_", "n",
      "a", "m", "e", " ", "F", "R", "O", "M", " ", "i", "n", "v", "e", "n", "t", "o",
      "r", "y", " ", "W", "H", "E", "R", "E", " ", "p", "r", "o", "d", "u", "c", "t",
      "_", "i", "d", " ", "=", " ", "'", "P", "R", "O", "D", "0", "0", "1", "'">>
STMT_SELECT_CUSTOMERS ==
    <<"S", "E", "L", "E", "C", "T", " ", "*", " ", "F", "R", "O", "M", " ", "c", "u",
      "s", "t", "o", "m", "e", "r", "s">>
STMT_DELETE ==
    <<"D", "E", "L", "E", "T", "E", " ", "F", "R", "O", "M", " ", "o", "r", "d", "e",
      "r", "s">>
STMT_CREATE ==
    <<"C", "R", "E", "A", "T", "E", " ", "T", "A", "B", "L", "E", " ", "a", "u", "d",
      "i", "t", " ", "(", "n", " ", "I", "N", "T", "E", "G", "E", "R", ")">>
STMT_REPLACE ==
    <<"R", "E", "P", "L", "A", "C", "E", " ", "I", "N", "T", "O", " ", "i", "n", "v",
      "e", "n", "t", "o", "r", "y", " ", "V", "A", "L", "U", "E", "S", " ", "(", "'",
      "P", "R", "O", "D", "0", "0", "1", "'", ",", " ", "'", "x", "'", ",", " ", "1",
      ",", " ", "1", ",", " ", "1", ",", " ", "1", ",", " ", "'", "t", "'", ")">>
SqlStatements ==
    {STMT_SELECT_FAILED, STMT_SELECT_LAST_UPDATED, STMT_SELECT_NAME, STMT_SELECT_CUSTOMERS,
     STMT_DELETE, STMT_CREATE, STMT_REPLACE}
MaxStatements == 3
ONLY_SELECT == "Only SELECT queries are allowed for safety"
NO_SUCH_TABLE == "no such table"
TABLE_EXISTS == "table already exists"
\* the words of the safety check, line 361
blocked_words ==
    <<lower(OP_DROP), lower(OP_DELETE), lower(OP_UPDATE), lower(OP_INSERT), lower(OP_ALTER)>>

\* cursor.execute(sql_query) on the connection: the error it raises ("" for none)
\* and the database afterwards
sqlite_execute(database, sql_query) ==
    IF sql_query = STMT_SELECT_CUSTOMERS
    THEN [error |-> NO_SUCH_TABLE, database |-> database]
    ELSE IF sql_query = STMT_CREATE
    THEN IF "audit" \in database.tables
         THEN [error |-> TABLE_EXISTS, database |-> database]
         ELSE [error |-> "",
               database |-> [database EXCEPT !.tables = @ \cup {"audit"}]]
    ELSE IF sql_query = STMT_REPLACE
    THEN [error |-> "", database |-> [database EXCEPT !.product_name = "x"]]
    ELSE IF sql_query = STMT_DELETE
    THEN [error |-> "", database |-> [database EXCEPT !.orders = {}]]
    ELSE [error |-> "", database |-> database]

\* whether the safety check of lines 360-361 lets the statement through
passes_safety_check(sql_query) ==
    LET sql_lower == strip(lower(sql_query))
    IN  ~\E i \in DOMAIN blocked_words : Contains(blocked_words[i], sql_lower)
PassesSafetyCheck == [sql \in SqlStatements |-> passes_safety_check(sql)]

\* execute_sql_query: the safety check, then the statement is run; an exception of
\* SQLite is returned as a failure
execute_sql_query(sql_query) ==
    /\ Len(db_log) < MaxStatements
    /\ IF ~PassesSafetyCheck[sql_query]
       THEN /\ db_log' = Append(db_log, [sql |-> sql_query, success |-> FALSE,
                                         error |-> ONLY_SELECT])
            /\ UNCHANGED db
       ELSE LET done == sqlite_execute(db, sql_query)
            IN  /\ db' = done.database
                /\ db_log' = Append(db_log, [sql |-> sql_query,
                                             success |-> done.error = "",
                                             error |-> done.error])
    /\ UNCHANGED <<rest_vars_but_api, graph_vars, deep_chat_vars, routed>>

NextDb ==
    \E sql_query \in SqlStatements : execute_sql_query(sql_query)

SpecDb == Init /\ [][NextDb]_vars

\* ------------------------------------------- the endpoints of main_deep_agent.py
\* POST /chat, DELETE /threads/{thread_id}, POST /hitl/approve/{query_id} and
\* POST /hitl/reject/{query_id}.  The handlers are coroutines without an await
\* inside, so a request is served to its end before the next one starts; the
\* steps of supervisor.invoke inside /chat are the steps of the chain.
ThreadIds == {"t1", "t2"}
MaxHistory == 2
CMD_APPROVE ==
    <<"a", "p", "p", "r", "o", "v", "e", " ">>
CMD_REJECT ==
    <<"r", "e", "j", "e", "c", "t", " ">>
DigitText == <<"0", "1", "2", "3", "4", "5", "6", "7", "8", "9">>
\* f"sql_{ms}" as the user types it (one digit is enough for the clock values)
id_text(query_id) == query_id[1] \o <<DigitText[query_id[2] + 1]>>
\* the messages given to /chat: a question, the approve command for every
\* identifier, a command in capitals, a reject command and a command without
\* identifier
MSG_QUESTION == NL_FAILED_ORDERS
MSG_APPROVE_BLANK == CMD_APPROVE
approve_message(query_id) == CMD_APPROVE \o id_text(query_id)
reject_message(query_id) == CMD_REJECT \o id_text(query_id)
ChatMessages ==
    {MSG_QUESTION, MSG_APPROVE_BLANK, upper(approve_message(make_query_id(0))),
     reject_message(make_query_id(0))}
        \cup {approve_message(id) : id \in QueryIds}

\* str.startswith and str.replace(old, "")
starts_with(text, prefix) ==
    Len(text) >= Len(prefix) /\ SubSeq(text, 1, Len(prefix)) = prefix
RECURSIVE remove_all(_, _)
remove_all(text, old) ==
    IF text = <<>> THEN <<>>
    ELSE IF starts_with(text, old)
    THEN remove_all(SubSeq(text, Len(old) + 1, Len(text)), old)
    ELSE <<Head(text)>> \o remove_all(Tail(text), old)
\* the identifier a text names (NoId when it is the text of no identifier)
query_id_of(text) ==
    IF \E id \in QueryIds : id_text(id) = text
    THEN CHOOSE id \in QueryIds : id_text(id) = text
    ELSE NoId
\* chat, lines 115-119 and 141-142: the command a message is taken for
command_of(message) ==
    LET message_lower == strip(lower(message))
    IN  IF starts_with(message_lower, CMD_APPROVE)
        THEN [action |-> "approved",
              query_id |-> query_id_of(strip(remove_all(message_lower, CMD_APPROVE)))]
        ELSE IF starts_with(message_lower, CMD_REJECT)
        THEN [action |-> "rejected",
              query_id |-> query_id_of(strip(remove_all(message_lower, CMD_REJECT)))]
        ELSE [action |-> "none", query_id |-> NoId]
CommandOf == [m \in ChatMessages |-> command_of(m)]

\* active_threads: a dict from thread ids to lists of entries
HistoryLength ==
    LET RECURSIVE Sum(_)
        Sum(S) == IF S = {} THEN 0
                  ELSE LET t == CHOOSE x \in S : TRUE
                       IN  Len(active_threads[t]) + Sum(S \ {t})
    IN  Sum(DOMAIN active_threads)
\* variant: the list of the thread is started again with the entry
store_in_thread_afresh(threads, thread_id, entry) ==
    [t \in DOMAIN threads \cup {thread_id} |->
        IF t = thread_id THEN <<entry>> ELSE threads[t]]
store_in_thread(threads, thread_id, entry) ==
    [t \in DOMAIN threads \cup {thread_id} |->
        IF t = thread_id
        THEN Append(IF thread_id \in DOMAIN threads THEN threads[thread_id] ELSE <<>>, entry)
        ELSE threads[t]]
ThreadEntry(user, assistant, path) ==
    [user |-> user, assistant |-> assistant, agent_path |-> path]

\* variant: every tool call is listed
agent_path_of_every_call(calls) == [i \in DOMAIN calls |-> calls[i].tool]
\* chat, lines 174-183: the tools of result["monitoring"]["tool_calls"], each
\* listed once, at its first call
agent_path_of(calls) ==
    LET first == {i \in DOMAIN calls : \A j \in 1..(i - 1) : calls[j].tool # calls[i].tool}
        RECURSIVE InOrder(_)
        InOrder(S) == IF S = {} THEN <<>>
                      ELSE <<calls[MinOf(S)].tool>> \o InOrder(S \ {MinOf(S)})
    IN  InOrder(first)

\* chat, a command: approve_sql_query or reject_sql_query is called, the exchange
\* is stored in the thread and returned
chat_command(thread_id, message) ==
    /\ chain_pc = "idle"
    /\ HistoryLength < MaxHistory
    /\ CommandOf[message].action # "none"
    /\ IF CommandOf[message].action = "approved"
       THEN approve_sql_query(CommandOf[message].query_id)
       ELSE reject_sql_query(CommandOf[message].query_id)
    /\ request' = [endpoint |-> "POST /chat", thread_id |-> thread_id, message |-> message]
    /\ active_threads' = store_in_thread(active_threads, thread_id,
                                         ThreadEntry(message, ret'.outcome, <<"db_team">>))
    /\ http' = [status |-> 200, response |-> ret'.outcome, thread_id |-> thread_id,
                agent_path |-> <<"db_team">>,
                approval_action |-> CommandOf[message].action,
                query_id |-> CommandOf[message].query_id]
    /\ UNCHANGED <<chain_vars, graph_vars, exec_vars, runs_vars, routed, db_vars>>

\* chat, a question: supervisor.invoke starts
chat_invoke(thread_id, message, content, calls) ==
    /\ HistoryLength < MaxHistory
    /\ CommandOf[message].action = "none"
    /\ chain_invoke(content, calls)
    /\ request' = [endpoint |-> "POST /chat", thread_id |-> thread_id, message |-> message]
    /\ http' = NoHttp
    /\ raised' = "none"
    /\ last_summary' = NoSummary
    /\ UNCHANGED <<active_threads, runs_vars, routed, db_vars>>

\* chat, lines 207-210: the exception that leaves supervisor.invoke is answered
\* with status 500
chat_invoke_raises(thread_id, message) ==
    /\ HistoryLength < MaxHistory
    /\ CommandOf[message].action = "none"
    /\ chain_invoke_raises
    /\ request' = [endpoint |-> "POST /chat", thread_id |-> thread_id, message |-> message]
    /\ http' = [status |-> 500, detail |-> LLM_FAILURE]
    /\ UNCHANGED <<active_threads, routed, db_vars>>
chat_final_raises ==
    /\ chain_final_raises
    /\ http' = [status |-> 500, detail |-> LLM_FAILURE]
    /\ UNCHANGED <<active_threads, request, routed, db_vars>>

\* chat after supervisor.invoke (whose last step is postprocess): the agent path
\* is taken from the monitoring summary, the exchange is stored and returned
deep_chat_respond ==
    /\ chain_postprocess
    /\ LET path == agent_path_of(tool_calls)
       IN  /\ active_threads' = store_in_thread(active_threads, request.thread_id,
                                     ThreadEntry(request.message, final_response', path))
           /\ http' = [status |-> 200, response |-> final_response',
                       thread_id |-> request.thread_id, agent_path |-> path,
                       tools_called |-> Len(tool_calls)]
    /\ last_summary' = NoSummary
    /\ UNCHANGED <<request, raised, runs_vars, routed, db_vars>>

\* DELETE /threads/{thread_id}
delete_thread(thread_id) ==
    /\ chain_pc = "idle"
    /\ IF thread_id \in DOMAIN active_threads
       THEN /\ active_threads' = [t \in DOMAIN active_threads \ {thread_id} |->
                                     active_threads[t]]
            /\ http' = [status |-> 200, deleted |-> thread_id]
       ELSE /\ http' = [status |-> 404, detail |-> "Thread not found"]
            /\ UNCHANGED active_threads
    /\ request' = [endpoint |-> "DELETE /threads", thread_id |-> thread_id, message |-> <<>>]
    /\ UNCHANGED <<rest_vars_but_api, graph_vars, routed, db_vars>>

\* POST /hitl/approve/{query_id} and POST /hitl/reject/{query_id}
approve_query(query_id) ==
    /\ chain_pc = "idle"
    /\ approve_sql_query(query_id)
    /\ http' = [status |-> 200, success |-> TRUE, query_id |-> query_id,
                result |-> ret'.outcome]
    /\ UNCHANGED <<chain_vars, graph_vars, exec_vars, runs_vars, active_threads, request,
                   routed, db_vars>>
reject_query(query_id) ==
    /\ chain_pc = "idle"
    /\ reject_sql_query(query_id)
    /\ http' = [status |-> 200, success |-> TRUE, query_id |-> query_id,
                result |-> ret'.outcome]
    /\ UNCHANGED <<chain_vars, graph_vars, exec_vars, runs_vars, active_threads, request,
                   routed, db_vars>>

\* the tool calls of an LLM reply in /chat
ChatCallLists ==
    {<<>>,
     <<RequestedCall("query_database", NL_DELETE_ORDER, "call_1")>>,
     <<RequestedCall("query_database", NL_FAILED_ORDERS, "call_1"),
       RequestedCall("investigate_logs", NL_FAILED_ORDERS, "call_2"),
       RequestedCall("query_database", NL_FAILED_ORDERS, "call_3")>>}

\* the requests to /chat and /threads, served while the clock stands
NextChat ==
    \/ \E thread_id \in ThreadIds, message \in ChatMessages :
           chat_command(thread_id, message)
    \/ \E thread_id \in ThreadIds, message \in ChatMessages, calls \in ChatCallLists :
           /\ QueryCalls(calls) <= MaxCalls - NumCalls
           /\ chat_invoke(thread_id, message, "ANSWER", calls)
    \/ \E thread_id \in ThreadIds, message \in ChatMessages :
           chat_invoke_raises(thread_id, message)
    \/ chain_tool /\ last_summary' = NoSummary /\ UNCHANGED <<raised, runs_vars, api_vars>>
    \/ chain_tool_raises(TRUE) /\ UNCHANGED api_vars
    \/ chain_final("ANSWER") /\ UNCHANGED <<exec_vars, runs_vars, api_vars>>
    \/ chat_final_raises
    \/ deep_chat_respond
    \/ \E thread_id \in ThreadIds : delete_thread(thread_id)

SpecChat == Init /\ [][NextChat]_vars

\* the requests to /hitl/approve and /hitl/reject, with query_database called in
\* between
NextHitl ==
    \/ Tick /\ UNCHANGED <<chain_vars, graph_vars, exec_vars, runs_vars, api_vars>>
    \/ \E q \in NLQueries : query_database(q) /\ UNCHANGED <<chain_vars, graph_vars, exec_vars, runs_vars, api_vars>>
    \/ \E query_id \in QueryIds : approve_query(query_id)
    \/ \E query_id \in QueryIds : reject_query(query_id)

SpecHitl == Init /\ [][NextHitl]_vars

\* ------------------------------------ two runs on the one shared recorder
\* monitoring is one module-level object; two runs of the chain (two threads)
\* interleave between their calls of its methods.  Each run resets the recorder,
\* starts the supervisor record, calls search_knowledge once and ends.
QUESTION_PAYMENT == "payment failures"
QUESTION_CONFIGURATION == "configuration"
question(t) == IF t = 1 THEN QUESTION_PAYMENT ELSE QUESTION_CONFIGURATION
\* len(_perform_knowledge_search(question, "all")) for the two questions
PAYMENT_FAILURES_LENGTH == 1335
CONFIGURATION_LENGTH == 834
perform_knowledge_search_length(q) ==
    IF q = QUESTION_PAYMENT THEN PAYMENT_FAILURES_LENGTH ELSE CONFIGURATION_LENGTH

\* preprocess, first statement: monitoring.reset()
preprocess_reset(t) ==
    /\ run_pc[t] = "idle"
    /\ agent_executions' = <<>>
    /\ tool_calls' = <<>>
    /\ errors' = <<>>
    /\ start_time' = now
    /\ run_pc' = [run_pc EXCEPT ![t] = "reset"]
    /\ UNCHANGED run_idx

\* preprocess, second statement: monitoring.track_agent_start("supervisor")
preprocess_start(t) ==
    /\ run_pc[t] = "reset"
    /\ agent_executions' = track_agent_start(agent_executions, "supervisor")
    /\ run_pc' = [run_pc EXCEPT ![t] = "started"]
    /\ UNCHANGED <<tool_calls, errors, start_time, run_idx>>

\* search_knowledge, up to its try: idx = monitoring.track_tool_call(...)
search_knowledge_call(t) ==
    /\ run_pc[t] = "started"
    /\ tool_calls' = track_tool_call(tool_calls, "search_knowledge",
                                     [question |-> question(t), search_type |-> "all"])
    /\ run_idx' = [run_idx EXCEPT ![t] = Len(tool_calls) + 1]
    /\ run_pc' = [run_pc EXCEPT ![t] = "called"]
    /\ UNCHANGED <<agent_executions, errors, start_time>>

\* search_knowledge, the try: monitoring.track_tool_complete(idx, results)
search_knowledge_complete(t) ==
    /\ run_pc[t] = "called"
    /\ tool_calls' = track_tool_complete(tool_calls, run_idx[t],
                                         perform_knowledge_search_length(question(t)))
    /\ run_pc' = [run_pc EXCEPT ![t] = "done"]
    /\ UNCHANGED <<agent_executions, errors, start_time, run_idx>>

\* search_knowledge, the except: monitoring.track_tool_error(idx, e), and the
\* except of agent_executor: monitoring.track_error(e, ...)
search_knowledge_error(t) ==
    /\ run_pc[t] = "called"
    /\ tool_calls' = track_tool_error(tool_calls, run_idx[t], TOOL_FAILURE)
    /\ errors' = track_error(errors, TOOL_FAILURE, <<"Tool execution", "search_knowledge">>)
    /\ run_pc' = [run_pc EXCEPT ![t] = "done"]
    /\ UNCHANGED <<agent_executions, start_time, run_idx>>

\* postprocess: monitoring.track_agent_complete("supervisor")
postprocess_complete(t) ==
    /\ run_pc[t] = "done"
    /\ agent_executions' = track_agent_complete(agent_executions, "supervisor")
    /\ run_pc' = [run_pc EXCEPT ![t] = "idle"]
    /\ UNCHANGED <<tool_calls, errors, start_time, run_idx>>

\* what a step of a run leaves alone
runs_frame == <<now, hitl_vars, pending_approvals, executed, proposed, resolutions, ret,
                thread_vars, direct_vars, chain_vars, graph_vars, exec_vars, api_vars>>

NextRuns ==
    \/ Tick /\ UNCHANGED <<chain_vars, graph_vars, exec_vars, runs_vars, api_vars>>
    \/ \E t \in Threads : preprocess_reset(t) /\ UNCHANGED runs_frame
    \/ \E t \in Threads : preprocess_start(t) /\ UNCHANGED runs_frame
    \/ \E t \in Threads : search_knowledge_call(t) /\ UNCHANGED runs_frame
    \/ \E t \in Threads : search_knowledge_complete(t) /\ UNCHANGED runs_frame
    \/ \E t \in Threads : search_knowledge_error(t) /\ UNCHANGED runs_frame
    \/ \E t \in Threads : postprocess_complete(t) /\ UNCHANGED runs_frame

SpecRuns == Init /\ [][NextRuns]_vars

\* ================================================================ claims
NumExecuted(r) == Cardinality({i \in DOMAIN executed : executed[i].req = r})
NumResolved(r) == Cardinality({i \in DOMAIN resolutions : resolutions[i].req = r})
PendingReqs == {pending_approvals[i].req : i \in DOMAIN pending_approvals}
ListedIds(listing) ==
    {listing.pending_approvals[i].query_id : i \in DOMAIN listing.pending_approvals}

\* C1 (as stated): in every reachable state a high-risk generated query has never
\* been executed by query_database itself, only by approve_sql_query on a request
\* that was stored for it.
C1_HighOnlyByApproval ==
    \A i \in DOMAIN executed :
        executed[i].risk_level = "high" =>
            /\ executed[i].by = "approve_sql_query"
            /\ executed[i].req \in 1..Len(proposed)

\* C1 (amended): while HITL is enabled, query_database called with a high-risk
\* query executes nothing and stores a pending request under the identifier it
\* returns; every execution of a high-risk query is made either by
\* approve_sql_query on a pending high-risk request, or by query_database while
\* HITL is disabled.
C1_HighGatedWhileEnabled ==
    [][/\ \A q \in NLQueries :
            (query_database(q) /\ enabled /\ SqlRisk[GeneratedSql[q]][1] = "high") =>
                /\ executed' = executed
                /\ ret'.outcome = APPROVAL_REQUIRED
                /\ InDict(pending_approvals', ret'.query_id)
                /\ DictGet(pending_approvals', ret'.query_id).generated_sql = GeneratedSql[q]
       /\ \A i \in DOMAIN executed' :
            (i > Len(executed) /\ executed'[i].risk_level = "high") =>
                /\ executed'[i].by = "query_database" => ~enabled
                /\ executed'[i].by = "approve_sql_query" =>
                       \E j \in DOMAIN pending_approvals :
                           /\ pending_approvals[j].req = executed'[i].req
                           /\ pending_approvals[j].risk_level = "high"
                /\ executed'[i].by \in {"query_database", "approve_sql_query"}
      ]_vars

\* a high-risk query was held back while HITL was enabled and then executed by an
\* approval
C1_Witness ==
    /\ enabled
    /\ ret.op = "approve_sql_query"
    /\ ret.outcome = APPROVED
    /\ \E i \in DOMAIN executed :
           /\ executed[i].by = "approve_sql_query"
           /\ executed[i].risk_level = "high"

\* C2: in a sequence of approve_sql_query / reject_sql_query calls on one identifier
\* at most one call succeeds: a call succeeds exactly when the identifier is
\* pending, a successful call is the only resolution of the request it held, after
\* any call the identifier is not pending, and no approve or reject call makes an
\* identifier pending (only query_database stores one), so every later call in the
\* sequence returns the not-found outcome.
C2_AtMostOneSuccess ==
    [][\A id \in QueryIds :
          /\ (approve_sql_query(id) \/ reject_sql_query(id)) =>
                /\ ~InDict(pending_approvals', id)
                /\ (ret'.outcome = NOT_FOUND) <=> ~InDict(pending_approvals, id)
                /\ ret'.outcome \in {NOT_FOUND, APPROVED, REJECTED}
                /\ InDict(pending_approvals, id) =>
                       Cardinality({i \in DOMAIN resolutions' : resolutions'[i].req =
                                       DictGet(pending_approvals, id).req}) = 1
          /\ (~InDict(pending_approvals, id) /\ InDict(pending_approvals', id)) =>
                ret'.op = "query_database"
      ]_vars

\* a call on an identifier whose request had been resolved returned not-found
C2_Witness ==
    /\ ret.op \in {"approve_sql_query", "reject_sql_query"}
    /\ ret.outcome = NOT_FOUND
    /\ \E i \in DOMAIN resolutions : proposed[resolutions[i].req] = ret.query_id

\* C3: approve_sql_query on a pending identifier returns the approved-and-executed
\* text, executes the held statement (one new execution, of the held request, the
\* only execution that request ever gets) and removes the identifier, so that
\* GET /hitl/pending no longer lists it.
C3_ApproveExecutesOnce ==
    [][\A id \in QueryIds :
          (approve_sql_query(id) /\ InDict(pending_approvals, id)) =>
              LET r == DictGet(pending_approvals, id)
              IN  /\ ret'.outcome = APPROVED
                  /\ Len(executed') = Len(executed) + 1
                  /\ executed'[Len(executed')] =
                         [by |-> "approve_sql_query", query |-> r.natural_language_query,
                          sql |-> r.generated_sql, risk_level |-> r.risk_level,
                          req |-> r.req]
                  /\ Cardinality({i \in DOMAIN executed' : executed'[i].req = r.req}) = 1
                  /\ ~InDict(pending_approvals', id)
                  /\ id \notin ListedIds(get_pending_approvals')
      ]_vars

\* an approval has just executed a held query and its identifier is not listed
C3_Witness ==
    /\ ret.op = "approve_sql_query"
    /\ ret.outcome = APPROVED
    /\ \E i \in DOMAIN executed : executed[i].by = "approve_sql_query"
    /\ ret.query_id \notin ListedIds(get_pending_approvals)

\* C4: approve_sql_query or reject_sql_query on an identifier that is not pending
\* returns the not-found outcome and changes neither the pending approvals, nor
\* the executions, nor the monitoring records.
C4_NotFoundChangesNothing ==
    [][\A id \in QueryIds :
          ((approve_sql_query(id) \/ reject_sql_query(id))
               /\ ~InDict(pending_approvals, id)) =>
              /\ ret'.outcome = NOT_FOUND
              /\ UNCHANGED <<pending_approvals, executed, resolutions, agent_executions,
                             tool_calls, errors, start_time>>
      ]_vars

\* a call returned not-found while other requests were pending and monitoring
\* held records
C4_Witness ==
    /\ ret.op \in {"approve_sql_query", "reject_sql_query"}
    /\ ret.outcome = NOT_FOUND
    /\ pending_approvals # <<>>
    /\ tool_calls # <<>>

\* C5: a rejected request is removed and its held query is never executed, neither
\* by the reject call nor afterwards.
C5_RejectedNeverExecuted ==
    \A i \in DOMAIN resolutions :
        resolutions[i].by = "reject" =>
            /\ NumExecuted(resolutions[i].req) = 0
            /\ resolutions[i].req \notin PendingReqs

\* a request was rejected and a later approve on its identifier found nothing
C5_Witness ==
    /\ ret.op = "approve_sql_query"
    /\ ret.outcome = NOT_FOUND
    /\ \E i \in DOMAIN resolutions :
           /\ resolutions[i].by = "reject"
           /\ proposed[resolutions[i].req] = ret.query_id

\* C6: every proposal gets a fresh unique identifier: no two proposals receive the
\* same identifier, and storing a new request never overwrites one that is still
\* pending (every stored request is pending until an approve or a reject
\* resolves it).
C6_FreshIdentifiers ==
    /\ \A i, j \in DOMAIN proposed : i # j => proposed[i] # proposed[j]
    /\ \A r \in DOMAIN proposed : r \in PendingReqs \/ NumResolved(r) = 1

\* C7: operations on one identifier are linearizable: when two approve calls, or
\* an approve and a reject, on the same pending identifier interleave, the held
\* query is executed at most once, the request is resolved at most once, and the
\* other call ends with the not-found outcome rather than with an exception.
C7_Linearizable ==
    /\ \A r \in DOMAIN proposed : NumExecuted(r) <= 1 /\ NumResolved(r) <= 1
    /\ \A t \in Threads : tret[t] # "KeyError"
    /\ \A i \in DOMAIN resolutions :
           resolutions[i].by = "reject" => NumExecuted(resolutions[i].req) = 0

\* The tier that the ordered rules give a payload.  A payload denotes a mutating
\* operation when its statement keyword, the first word of the text, is one of the
\* write operations; it is a read-only query when that keyword is SELECT.
IsSpace(c) == c \in {" ", "\n", "\t"}
StatementKeywordIs(word, sql) ==
    LET u == upper(sql)
        k == MinOf({i \in DOMAIN u : ~IsSpace(u[i])})
    IN  /\ \E i \in DOMAIN u : ~IsSpace(u[i])
        /\ k + Len(word) - 1 <= Len(u)
        /\ SubSeq(u, k, k + Len(word) - 1) = word
DenotesMutation(sql) ==
    \E i \in DOMAIN write_operations : StatementKeywordIs(write_operations[i], sql)
ReferencesSensitive(sql) ==
    \E i \in DOMAIN sensitive_tables : Contains(upper(sensitive_tables[i]), upper(sql))
RuleTier(sql) ==
    IF DenotesMutation(sql) THEN "high"
    ELSE IF ReferencesSensitive(sql) THEN "medium"
    ELSE IF StatementKeywordIs(KW_SELECT, sql) /\ ~Contains(KW_LIMIT, upper(sql))
         THEN "medium"
    ELSE "low"
RuleTierOf == [sql \in Payloads |-> RuleTier(sql)]

\* C8: for every payload _analyze_sql_risk returns the tier of the ordered rules;
\* in particular a bounded read-only query that denotes no mutating operation and
\* references no sensitive resource is low.
C8_TierByOrderedRules ==
    \A i \in DOMAIN analyses : analyses[i].result[1] = RuleTierOf[payload]

\* C9: the approval policy follows the tier: high always requires approval, medium
\* requires it exactly when the sensitive-table flag is enabled, low never
\* requires it.
C9_PolicyFollowsTier ==
    approval.risk_level \in RiskLevels =>
        approval.required =
            CASE approval.risk_level = "high" -> TRUE
              [] approval.risk_level = "medium" ->
                     approval.require_approval_for_sensitive_tables
              [] approval.risk_level = "low" -> FALSE

\* C10: risk classification is a pure function: every call of _analyze_sql_risk
\* on the payload returns the same (tier, reason) as every earlier call, whatever
\* ran in between, and the step that makes the call changes nothing of the
\* program's state.
C10_ClassificationIsPure ==
    [][analyses' # analyses =>
          /\ \A i \in DOMAIN analyses' :
                 analyses'[i].result = analyses'[Len(analyses')].result
          /\ payload' = payload
          /\ UNCHANGED <<hitl_vars, pending_approvals, monitoring_vars, executed,
                         proposed, resolutions>>
      ]_vars

\* the payload was classified twice, with HITL enabled at one call and disabled
\* at the other
C10_Witness ==
    \E i, j \in DOMAIN analyses : i < j /\ analyses[i].enabled # analyses[j].enabled

\* C12: while an approval request is pending, the recorder holds the record of the
\* query_database call that produced it and that record has no end: it is still
\* "started", not completed.
C12_PendingRecordUnfinished ==
    \A i \in DOMAIN pending_approvals :
        \E k \in DOMAIN tool_calls :
            /\ tool_calls[k].tool = "query_database"
            /\ tool_calls[k].args.query = pending_approvals[i].natural_language_query
            /\ tool_calls[k].start_time = pending_approvals[i].timestamp
            /\ tool_calls[k].status = "started"
            /\ "end_time" \notin DOMAIN tool_calls[k]

\* C13: every execution of a held query by an approval is recorded: each call of
\* _execute_database_query, those made by approve_sql_query included, has its own
\* completed record in the recorder, holding the length of the execution's result.
C13_ApprovedExecutionRecorded ==
    /\ \A i \in DOMAIN executed :
           \E k \in DOMAIN tool_calls :
               /\ tool_calls[k].status = "completed"
               /\ tool_calls[k].args.query = executed[i].query
               /\ tool_calls[k].result_length = ResultLength(executed[i].query, executed[i].sql)
    /\ Len(executed) <=
           Cardinality({k \in DOMAIN tool_calls :
                           /\ tool_calls[k].status = "completed"
                           /\ tool_calls[k].result_length # PENDING_APPROVAL_LENGTH})

\* the tool messages of the current run that signal a pending approval
PendingSignals ==
    {i \in DOMAIN tool_messages : tool_messages[i].content.outcome = APPROVAL_REQUIRED}

\* C11: when an action of a round is turned into a pending approval request, the
\* loop stops processing the round: no later requested action of the round is
\* executed (the pending-approval result is the last tool result), no further LLM
\* call is made in the run, and the last message of the returned conversation is
\* the pending-approval result carrying the identifier.
C11_StopsAtPendingApproval ==
    PendingSignals # {} =>
        /\ \A i \in PendingSignals : i = Len(tool_messages)
        /\ llm_invocations = 1
        /\ chain_pc \in {"postprocess", "idle"} =>
               /\ messages[Len(messages)].type = "tool"
               /\ messages[Len(messages)].content.outcome = APPROVAL_REQUIRED
               /\ messages[Len(messages)].content.query_id \in QueryIds

\* C14: once a handler has produced output after the most recent user message,
\* every further supervisor decision of the turn is FINISH, and at most one team
\* node runs per user turn.
C14_OneHandlerPerTurn ==
    [][/\ (supervisor_decisions' = supervisor_decisions + 1 /\ handler_invocations > 0) =>
              next' = FINISH
       /\ handler_invocations' = handler_invocations + 1 =>
              ai_count_this_turn(graph_messages') > 0
       /\ handler_invocations' <= 1
      ]_vars

\* a turn in which a team ran and the supervisor then decided FINISH
C14_Witness ==
    /\ handler_invocations = 1
    /\ next = FINISH
    /\ node = "idle"
    /\ response_content = "ANSWER"

\* C15: every graph run started by a user message terminates: it reaches END, after
\* at most one handler invocation and at most two supervisor decisions.
C15_RunTerminates ==
    /\ [](handler_invocations <= 1 /\ supervisor_decisions <= 2)
    /\ (node \in Members \cup {"supervisor"}) ~> (node = "END")

\* a run at END after one handler invocation and two supervisor decisions
C15_Witness ==
    /\ node = "END"
    /\ handler_invocations = 1
    /\ supervisor_decisions = 2

\* C16: the router only ever emits a registered handler name or the completion
\* signal: after every supervisor decision "next" is one of log_team,
\* knowledge_team, db_team, FINISH, and the conditional edge leads to a node of
\* the graph.
C16_NextIsRegistered ==
    /\ (supervisor_decisions > 0 \/ turns > 1) => next \in Members \cup {FINISH}
    /\ node \in Members \cup {"idle", "supervisor", "END"}

\* the LLM was asked and its reply named no team: the decision is FINISH
C16_Witness ==
    /\ graph_llm_invocations = 1
    /\ supervisor_decisions = 1
    /\ next = FINISH

\* C17: for a non-empty latest user message with no handler output yet, the
\* router picks a handler deterministically from the text: the same message
\* always gets the same handler, and a message matching no keyword rule falls
\* back to a default handler, never to completion.
C17_DeterministicWithDefault ==
    /\ \A d \in first_decisions : d[2] \in Members
    /\ \A d, e \in first_decisions : d[1] = e[1] => d[2] = e[2]

PHRASE_COMPARE_ORDERS ==
    <<"c", "o", "m", "p", "a", "r", "e", " ", "o", "r", "d", "e", "r", "s">>
\* the messages that hold an order ID (as written by the user) or the phrase
NamesOrders ==
    [m \in UserMessages |-> has_order_ids(m) \/ Contains(PHRASE_COMPARE_ORDERS, lower(m))]

\* C19: a user message that contains an order ID such as GOOD001 or BAD001, or the
\* phrase "compare orders", is routed to log_team.
C19_OrderIdsToLogTeam ==
    \A d \in first_decisions : NamesOrders[d[1]] => d[2] = "log_team"

ToolRaisedStep ==
    /\ chain_pc = "tools"
    /\ tool_calls_left # <<>>
    /\ now' = now
    /\ ret'.outcome = RAISED
    /\ <<ret, tool_calls, errors, chain_pc, raised>>' #
           <<ret, tool_calls, errors, chain_pc, raised>>

\* C21: a tool that raises does not end the run: the failure is recorded in the
\* recorder's errors, exactly one ToolMessage with the error text and the id of the
\* call is appended, the loop goes on with the remaining calls, and the loop is
\* left only when every call was processed, by invoking the LLM again with the
\* reply and all results.
C21_ToolFailureContained ==
    [][/\ ToolRaisedStep =>
              LET tool_call == Head(tool_calls_left)
              IN  /\ errors' = Append(errors,
                                      [error |-> TOOL_FAILURE,
                                       context |-> <<"Tool execution", tool_call.name>>,
                                       timestamp |-> now])
                  /\ tool_messages' =
                         Append(tool_messages,
                                ToolMessage(ErrorContent(tool_call.name, TOOL_FAILURE),
                                            tool_id(tool_call), tool_call.name))
                  /\ tool_calls_left' = Tail(tool_calls_left)
                  /\ chain_pc' = "tools"
                  /\ raised' = raised
                  /\ llm_invocations' = llm_invocations
       /\ (chain_pc = "tools" /\ chain_pc' # "tools") =>
              /\ tool_calls_left = <<>>
              /\ llm_invocations' = llm_invocations + 1
              /\ chain_pc' = "postprocess" =>
                     /\ Len(messages') = Len(messages) + 1 + Len(tool_messages) + 1
                     /\ \A i \in DOMAIN tool_messages :
                            messages'[Len(messages) + 1 + i] = tool_messages[i]
      ]_vars

\* the first tool raised, the second was executed, and the LLM was asked again
C21_Witness ==
    /\ chain_pc = "postprocess"
    /\ llm_invocations = 2
    /\ Len(errors) = 1
    /\ Len(tool_messages) = 2
    /\ tool_messages[1].content = ErrorContent("query_database", TOOL_FAILURE)
    /\ tool_messages[2].content = Ret("query_database", NoId, AUTO_APPROVED)
    /\ tool_calls[1].status = "error"


\* C22: when an LLM invocation failed, the run has ended at once (nothing of the
\* chain is left to run, the exception reached the caller) and the failure is in
\* the recorder's errors.
C22_LlmFailureRecorded ==
    raised = "llm" =>
        /\ chain_pc = "idle"
        /\ \E i \in DOMAIN errors : errors[i].error = LLM_FAILURE

\* C23: when no run is in flight, every begin of the recorder has its end: each
\* agent record has an end time and each tool record is completed or error.
C23_BeginsPaired ==
    chain_pc = "idle" =>
        /\ \A i \in DOMAIN agent_executions : "end_time" \in DOMAIN agent_executions[i]
        /\ \A i \in DOMAIN tool_calls : tool_calls[i].status \in {"completed", "error"}

\* C26: two get_summary results with no recorder activity in between are equal.
C26_SummaryIdempotent ==
    [][(last_summary # NoSummary /\ last_summary' # NoSummary) =>
           last_summary' = last_summary]_vars

\* C27: when the loop over the tool calls of a reply is done, the tool messages
\* answer the calls one to one and in request order: the ids of the tool messages
\* are the ids of the calls.
C27_EachCallAnswered ==
    (chain_pc = "postprocess" /\ response.tool_calls # <<>>) =>
        [i \in DOMAIN tool_messages |-> tool_messages[i].tool_call_id] =
            [i \in DOMAIN response.tool_calls |-> tool_id(response.tool_calls[i])]

\* C29: under the default configuration the revenue-by-payment-method question
\* is executed at once and never stored as an approval request.
C29_RevenueQueryAutoApproved ==
    /\ \A i \in DOMAIN pending_approvals :
           pending_approvals[i].natural_language_query # NL_REVENUE
    /\ \A i \in DOMAIN tool_calls :
           (tool_calls[i].args.query = NL_REVENUE /\ tool_calls[i].status = "completed") =>
               \E j \in DOMAIN executed : executed[j].query = NL_REVENUE

\* the step is a call of query_database('show all failed orders')
FailedOrdersCall ==
    /\ Len(tool_calls') = Len(tool_calls) + 1
    /\ tool_calls'[Len(tool_calls')].tool = "query_database"
    /\ tool_calls'[Len(tool_calls')].args.query = NL_FAILED_ORDERS

\* C28: with the default policy a call of query_database('show all failed
\* orders') executes the generated bounded read itself: exactly one execution is
\* added, no approval request is created (pending approvals unchanged), and the
\* call's monitoring record ends as completed.
C28_LowRiskReadExecutedDirectly ==
    [][(/\ FailedOrdersCall
        /\ enabled /\ require_approval_for_sensitive_tables /\ auto_approve_safe_queries) =>
           /\ pending_approvals' = pending_approvals
           /\ proposed' = proposed
           /\ executed' = Append(executed,
                                 [by |-> "query_database", query |-> NL_FAILED_ORDERS,
                                  sql |-> SQL_FAILED_ORDERS, risk_level |-> "low",
                                  req |-> 0])
           /\ tool_calls'[Len(tool_calls')].status = "completed"
           /\ tool_calls'[Len(tool_calls')].result_length =
                  ResultLength(NL_FAILED_ORDERS, SQL_FAILED_ORDERS)
           /\ ret' = Ret("query_database", NoId, AUTO_APPROVED)
      ]_vars

\* the read was executed under the default policy and nothing was ever proposed
C28_Witness ==
    /\ enabled /\ require_approval_for_sensitive_tables /\ auto_approve_safe_queries
    /\ ret = Ret("query_database", NoId, AUTO_APPROVED)
    /\ Len(executed) = 1
    /\ executed[1].query = NL_FAILED_ORDERS
    /\ proposed = <<>>
    /\ tool_calls[Len(tool_calls)].status = "completed"

\* C30: the listing of GET /hitl/pending holds the pending requests, one entry
\* each, in the order in which they were proposed: creation times do not decrease
\* along the listing and a request proposed earlier is listed earlier.
C30_ListedInCreationOrder ==
    LET listing == get_pending_approvals.pending_approvals
    IN  /\ get_pending_approvals.pending_count = Len(pending_approvals)
        /\ Len(listing) = Len(pending_approvals)
        /\ \A i \in DOMAIN listing :
               /\ listing[i].query_id = pending_approvals[i].query_id
               /\ listing[i].timestamp = pending_approvals[i].timestamp
        /\ \A i, j \in DOMAIN listing :
               i < j => /\ listing[i].timestamp <= listing[j].timestamp
                        /\ pending_approvals[i].req < pending_approvals[j].req

\* two requests are pending and listed, the earlier one first
C30_Witness ==
    LET listing == get_pending_approvals.pending_approvals
    IN  /\ Len(listing) = 2
        /\ listing[1].query_id = proposed[1]
        /\ listing[2].query_id = proposed[2]
        /\ listing[1].timestamp < listing[2].timestamp

\* the step is a reset of the recorder
ResetStep ==
    \/ \E t \in Threads : run_pc[t] = "idle" /\ run_pc'[t] = "reset"
    \/ runs' = runs + 1

\* C24: but for reset, no step removes a record, and a tool record that is
\* completed or error, or an agent record that has its end time, is never changed
\* again.
C24_FilledOnce ==
    [][~ResetStep =>
           /\ \A i \in DOMAIN tool_calls :
                  /\ i \in DOMAIN tool_calls'
                  /\ tool_calls[i].status \in {"completed", "error"} =>
                         tool_calls'[i] = tool_calls[i]
           /\ \A i \in DOMAIN agent_executions :
                  /\ i \in DOMAIN agent_executions'
                  /\ "end_time" \in DOMAIN agent_executions[i] =>
                         agent_executions'[i] = agent_executions[i]
      ]_vars

\* C25: with two runs interleaved, a run that has made its track_tool_call and not
\* yet its completion still has its own started record in the recorder, and its
\* completion or error call finishes exactly that record.
C25_OwnRecordFinished ==
    [][\A t \in Threads :
           /\ run_pc'[t] = "called" =>
                  /\ run_idx'[t] \in DOMAIN tool_calls'
                  /\ tool_calls'[run_idx'[t]].args.question = question(t)
                  /\ tool_calls'[run_idx'[t]].status = "started"
           /\ (run_pc[t] = "called" /\ run_pc'[t] = "done") =>
                  /\ run_idx[t] \in DOMAIN tool_calls'
                  /\ tool_calls'[run_idx[t]].args.question = question(t)
                  /\ tool_calls'[run_idx[t]].status \in {"completed", "error"}
                  /\ \A i \in DOMAIN tool_calls' :
                         i # run_idx[t] => (i \in DOMAIN tool_calls /\ tool_calls'[i] = tool_calls[i])
      ]_vars

\* C34: the response returned for a chat request is produced in that request's
\* turn: when no handler runs for the new message (empty message, or the
\* supervisor decides FINISH at once) the response is "No response generated",
\* never the answer of an earlier turn of the same thread.
C34_ResponseOfThisTurn ==
    (node = "idle" /\ turns > 0 /\ handlers_run = <<>>) => response_content = NO_RESPONSE

\* C35: the agent_path returned by chat of main.py for a request holds only
\* handlers that ran for that request: handlers invoked only in earlier turns of
\* the thread do not appear in it.
C35_PathOfThisRequest ==
    (node = "idle" /\ turns > 0) => Range(agent_path) \subseteq Range(handlers_run)

\* the rules as the routing guideline states them: an order ID as the user wrote
\* it or "compare"; a db_team keyword; a knowledge_team keyword
LogRule(m) == has_order_ids(m) \/ Contains(KW_COMPARE, lower(m))
DbRule(m) == \E i \in DOMAIN db_words : Contains(db_words[i], lower(m))
KnowledgeRule(m) == \E i \in DOMAIN knowledge_words : Contains(knowledge_words[i], lower(m))
FirstMatch ==
    [m \in RoutingMessages |->
        IF LogRule(m) THEN "log_team"
        ELSE IF DbRule(m) THEN "db_team"
        ELSE IF KnowledgeRule(m) THEN "knowledge_team"
        ELSE "none"]

\* C32: the keyword rules are evaluated in a fixed priority order and the first
\* match wins: the log_team rule (order ID or "compare") before the db_team
\* keywords before the knowledge_team keywords.
C32_FirstMatchWins ==
    \A i \in DOMAIN routed :
        FirstMatch[routed[i].message] # "none" =>
            routed[i].next = FirstMatch[routed[i].message]
\* the three messages the statement names are routed as it says
NamedMessagesRouted ==
    \A i \in DOMAIN routed :
        /\ routed[i].message = MSG_SHOW => routed[i].next = "db_team"
        /\ routed[i].message = MSG_COMPARE_SHOW => routed[i].next = "log_team"
        /\ routed[i].message = MSG_HOW_MANY => routed[i].next = "db_team"

\* a SELECT statement, and the SELECT statements over tables and columns of
\* DATABASE_SCHEMA
IsSelect(sql) == StatementKeywordIs(KW_SELECT, sql)
SchemaSelects == {STMT_SELECT_FAILED, STMT_SELECT_LAST_UPDATED, STMT_SELECT_NAME}

\* C33: execute_sql_query allows only SELECT queries: every statement that is not
\* a SELECT is refused with success = false and leaves the database unchanged, and
\* every SELECT over the schema's tables and columns is executed.
C33_OnlySelectAndEverySelect ==
    /\ db = SampleData
    /\ \A i \in DOMAIN db_log :
           /\ ~IsSelect(db_log[i].sql) => ~db_log[i].success
           /\ db_log[i].sql \in SchemaSelects => db_log[i].success

\* a statement of the generic branch, and a statement without its trailing
\* comment (the text from the first "--" on)
IsGeneric(sql) ==
    /\ Len(sql) >= Len(SQL_GENERIC_PREFIX)
    /\ SubSeq(sql, 1, Len(SQL_GENERIC_PREFIX)) = SQL_GENERIC_PREFIX
WithoutComment(sql) ==
    LET dashes == {i \in 1..(Len(sql) - 1) : sql[i] = "-" /\ sql[i + 1] = "-"}
    IN  IF dashes = {} THEN sql ELSE SubSeq(sql, 1, MinOf(dashes) - 1)
ExecutableTier == [sql \in Payloads |-> analyze_sql_risk(WithoutComment(sql))[1]]

\* C36: for every query that falls into the generic branch of _generate_sql_from_nl
\* the risk tier of the generated statement depends only on the executable SELECT
\* statement and not on the user's text in its trailing comment: two generic
\* queries that differ only in their wording get the same tier.
C36_TierIgnoresComment ==
    IsGeneric(payload) =>
        \A i \in DOMAIN analyses : analyses[i].result[1] = ExecutableTier[payload]

\* the index of the first call of a tool in the recorder
FirstCall(name) == MinOf({i \in DOMAIN tool_calls : tool_calls[i].tool = name})
\* /chat has answered a question
QuestionAnswered == http.status = 200 /\ "tools_called" \in DOMAIN http

ChatStep == request'.endpoint = "POST /chat" /\ vars' # vars
DeleteStep == request'.endpoint = "DELETE /threads" /\ <<request, http>>' # <<request, http>>
\* the step appends one entry to the thread of the request and nothing else
AppendsOneEntry ==
    LET t == request'.thread_id
        before == IF t \in DOMAIN active_threads THEN active_threads[t] ELSE <<>>
    IN  /\ DOMAIN active_threads' = DOMAIN active_threads \cup {t}
        /\ Len(active_threads'[t]) = Len(before) + 1
        /\ SubSeq(active_threads'[t], 1, Len(before)) = before
        /\ active_threads'[t][Len(before) + 1].user = request'.message
        /\ \A u \in DOMAIN active_threads \ {t} : active_threads'[u] = active_threads[u]

\* C39: thread history is append-only per request and unchanged on failure: every
\* successful /chat request appends exactly one entry to its thread, a request
\* whose supervisor invocation raises appends nothing and returns an error, and
\* deleting an unknown thread returns not-found and leaves all threads unchanged.
C39_HistoryAppendOnly ==
    [][/\ (ChatStep /\ http'.status = 200) => AppendsOneEntry
       /\ (ChatStep /\ http'.status # 200) => UNCHANGED active_threads
       /\ (ChatStep /\ raised' = "llm" /\ llm_invocations' # llm_invocations) =>
              http'.status = 500 /\ UNCHANGED active_threads
       /\ (DeleteStep /\ request'.thread_id \notin DOMAIN active_threads) =>
              http'.status = 404 /\ UNCHANGED active_threads]_vars
\* a request has failed on a thread that holds an earlier exchange, which is kept
C39_Witness ==
    /\ http.status = 500
    /\ request.thread_id \in DOMAIN active_threads
    /\ Len(active_threads[request.thread_id]) = 1

\* C37: /hitl/approve and /hitl/reject return success = true only when the
\* identifier was pending and the approval or rejection took effect; for an
\* identifier that is not pending the caller receives a failure.
C37_SuccessOnlyWhenPending ==
    ("success" \in DOMAIN http /\ http.success) => http.result \in {APPROVED, REJECTED}

\* a message that starts with "approve " or "reject ", whatever the case of its
\* letters; and a message whose text without the surrounding blanks does
StartsWithCommand(m) ==
    starts_with(lower(m), CMD_APPROVE) \/ starts_with(lower(m), CMD_REJECT)
NamesCommand(m) ==
    starts_with(strip(lower(m)), CMD_APPROVE) \/ starts_with(strip(lower(m)), CMD_REJECT)
\* the identifier a command names, letters compared without case (NoId: none)
NamedIdentifier(m) ==
    LET named == {id \in QueryIds :
                     \/ strip(lower(m)) = CMD_APPROVE \o id_text(id)
                     \/ strip(lower(m)) = CMD_REJECT \o id_text(id)}
    IN  IF named = {} THEN NoId ELSE CHOOSE id \in named : TRUE
\* what such a message may do: the ledger alone acts
HandledByLedgerOnly ==
    /\ UNCHANGED <<chain_vars, monitoring_vars, exec_vars>>
    /\ AppendsOneEntry
    /\ pending_approvals' =
           IF InDict(pending_approvals, NamedIdentifier(request'.message))
           THEN DictDel(pending_approvals, NamedIdentifier(request'.message))
           ELSE pending_approvals

\* C38 as stated: every chat message starting with "approve " or "reject " is
\* handled only by the approval ledger.
C38_CommandsHandledByLedger ==
    [][(ChatStep /\ StartsWithCommand(request'.message)) => HandledByLedgerOnly]_vars

\* C38: a chat message whose lower-cased text, stripped of surrounding blanks,
\* starts with "approve " or "reject " (the keyword is followed by an identifier)
\* is handled only by the approval ledger: the supervisor is not invoked, the
\* monitoring recorder is neither reset nor appended to, exactly one entry is
\* appended to the thread history, and the pending approvals change only by the
\* removal of the named identifier when it is pending.
C38_NamedCommandsHandledByLedger ==
    [][(ChatStep /\ NamesCommand(request'.message)) => HandledByLedgerOnly]_vars
\* a command has removed the pending identifier it names
C38_Witness ==
    /\ "approval_action" \in DOMAIN http
    /\ http.response \in {APPROVED, REJECTED}
    /\ ~InDict(pending_approvals, http.query_id)

====
